---- MODULE Spec2Model ----
(***************************************************************************)
(* Seattle UFO Battle: the UFO state machine (Ufo.ts), the Space Needle    *)
(* health model (SpaceNeedle1.ts) and the frame loop of main.ts (animate). *)
(*                                                                         *)
(* Units.  JavaScript numbers are modelled by exact scaled integers:       *)
(*   time      1 tick = 1/60 s                                             *)
(*   length    1 unit = 1/36000 world unit                                 *)
(*   velocity  1 unit = 1/600 world unit per second                        *)
(*   health    1 unit = 0.5 health point                                   *)
(* so that  v += GRAVITY * dt  is  v' = v - 196 * dt  and                  *)
(*          y += v * dt        is  y' = y + v' * dt   without rounding.    *)
(* Geometry that the laws below do not depend on (x/z position, the orbit  *)
(* angle, mesh rotation) is not part of the state; every test on it        *)
(* (projectile within the hit radius, laser ray meets a mesh) is an input. *)
(***************************************************************************)
EXTENDS Integers, Sequences, FiniteSets, TLC

VARIABLES
    ufos,               \* main.ts `ufos`: sequence of Ufo objects
    health,             \* SpaceNeedle._health
    activeProjectiles,  \* main.ts `activeProjectiles`: sequence of timeAlive
    playerScore, totalUfos, ufosDestroyed, gameStatus,
    isPaused, isUserPaused, isAboutModalOpen, isGameStarted,
    sceneLoaded,        \* loadTerrainAndEnvironment has resolved
    sinceLastShot,      \* clock.elapsedTime - lastShotTime, saturated
    victorySignals,     \* number of ui.showVictory calls
    lossSignals,        \* number of ui.showGameOver calls
    crashEffects,       \* per UFO: number of crash effects played
    plane,              \* playerPlane and its PhysicsEngine
    projection,         \* module state of coordinateUtils.ts
    scene,              \* elevationData, the terrain and where things stand
    loads,              \* loadElevationData calls in flight, fetches issued
    lastCall            \* the last call made on the Ufo / SpaceNeedle API

vars == <<ufos, health, activeProjectiles, playerScore, totalUfos,
          ufosDestroyed, gameStatus, isPaused, isUserPaused,
          isAboutModalOpen, isGameStarted, sceneLoaded, sinceLastShot,
          victorySignals, lossSignals, crashEffects, plane, projection,
          scene, loads, lastCall>>

(***************************************************************************)
(* Bounds of the model                                                     *)
(***************************************************************************)
NumUfos == 2            \* UFOs created by createUfos (the game uses 10)
MaxProjectiles == 2     \* projectiles in flight at once
MaxRayHits == 2         \* meshes of the Space Needle one laser ray can meet
ExploredDamage == 1     \* health a fresh session loses before it is left
MaxHealthExplored == 204 \* health cap for calls with negative damage
MaxFallSteps == 300     \* update calls followed on a falling UFO
MaxPlaneUpdates == 100  \* update calls followed with the same keys held
MeshSize == 4           \* vertices on a side of the terrain mesh (GRID_SIZE)
DataSize == 2           \* rows and columns of the elevation grid (metadata.size)
MaxLoadCalls == 3       \* calls of loadElevationData followed
GroupMeshSize == 3      \* vertices on a side of a mesh whose faces are grouped

(***************************************************************************)
(* Program constants                                                       *)
(***************************************************************************)
InitialHealth == 200        \* _health = 100
LaserDamage == 1            \* takeDamage(0.5)
GravityPerTick == 196       \* -GRAVITY = 9.8 * 2 per s, in velocity units
LaserDuration == 30         \* 0.5 s
ProjectileLifespan == 240   \* 4.0 s
ShotCooldown == 18          \* 0.3 s
ScorePerUfo == 10000
MinFireInterval == 120      \* nextLaserTime = 2 + Math.random() * 4: at least 2 s
ConstructedSpeed == 150     \* this.speed = 25
MinSpeed == 60              \* minSpeed 10
MaxSpeed == 600             \* maxSpeed 100
SpeedChangePerTick == 1     \* speedChangeRate 10 per s
PitchSensitivity == 10000   \* 1.0 rad per s
RollSensitivity == 12000    \* 1.2 rad per s
MaxPitchAngle == 628319     \* degToRad(60)
MaxRollAngle == 471239      \* degToRad(45)
TerrainBaseSize == 8000      \* TERRAIN_BASE_SIZE, world units
TempUtmCenterX == 55000000   \* tempUtmCenterX = 550000 m
TempUtmCenterY == 527500000  \* tempUtmCenterY = 5275000 m
WaterLevel == 50             \* WATER_LEVEL = 0.5
ElevationScale == 1          \* ELEVATION_SCALE
\* length units in a world unit: 600 velocity units times 60 ticks
LengthScale == 600 * 60

\* game coordinate units per world unit
GameScale == 100 * 100

\* values of Math.random() * 5 seconds
InitialNextLaserTimes == {0, 150}
\* draws of Math.random() in updateLaser, as the values they yield:
\*   next     2 + Math.random() * 4 seconds
\*   cooldown 0.5 + Math.random() * 1.5 seconds
UfoDraws == [next |-> {120, 240}, cooldown |-> {30, 75}]
\* the draws followed in a game session
FrameDraws == [next |-> {120}, cooldown |-> {30}]
\* values of clock.getDelta() passed to Ufo.update
DeltaTimes == {15, 30}
\* values of clock.getDelta() in a frame of the game session
FrameDeltaTimes == {30}
\* values of Math.sin(Date.now() * 0.001 * hoverFrequency) * hoverAmplitude
HoverOffsets == {3600}
\* getTerrainElevation at the Space Needle (elevation data), world units
TerrainElevation == 8

\* health values of a session close to its loss
SiegeHealths == {1}

UfoStates == {"flying", "hit", "falling", "crashed"}

Max(a, b) == IF a >= b THEN a ELSE b
Min(a, b) == IF a <= b THEN a ELSE b

(***************************************************************************)
(* SpaceNeedle.takeDamage                                                  *)
(***************************************************************************)
TakeDamage(h, amount) == Max(0, h - amount)

TakeDamageReturn(h, amount) ==
    LET nh == TakeDamage(h, amount) IN
    IF nh <= 150 /\ nh > 149 THEN FALSE
    ELSE IF nh <= 100 /\ nh > 99 THEN FALSE
    ELSE IF nh <= 50 /\ nh > 49 THEN FALSE
    ELSE IF nh <= 0 THEN TRUE
    ELSE FALSE

RECURSIVE ApplyHits(_, _)
\* the traversal of fireLaser: one takeDamage(0.5) per mesh the ray meets
ApplyHits(h, k) == IF k = 0 THEN h ELSE ApplyHits(TakeDamage(h, LaserDamage), k - 1)

(***************************************************************************)
(* Ufo                                                                     *)
(***************************************************************************)
\* height = 100 + (i % 5) * 30 for the i-th UFO (0-based) of createUfos
PathHeight(i) == (100 + ((i - 1) % 5) * 30) * LengthScale

\* y of the orbit centre: Space Needle position, terrainElevation + 2
OrbitCentreY == (TerrainElevation + 2) * LengthScale

\* new Ufo(scene, position, spaceNeedle) as configured by createUfos
NewUfo(i, firstLaser) ==
    [state |-> "flying",
     needsCrashEffect |-> FALSE,
     y |-> TerrainElevation * LengthScale + PathHeight(i),
     pathHeight |-> PathHeight(i),
     verticalVelocity |-> 0,
     lightOn |-> TRUE,
     smokeActive |-> FALSE,
     laserActive |-> FALSE,
     laserVisible |-> FALSE,
     laserTimer |-> 0,
     laserCooldown |-> 0,
     nextLaserTime |-> firstLaser]

\* hit() without its test of the state
HitAnyState(u) ==
    LET u1 == [u EXCEPT !.state = "hit"]
        u2 == [u1 EXCEPT !.verticalVelocity = 0]
        u3 == [u2 EXCEPT !.lightOn = FALSE]
        u4 == [u3 EXCEPT !.smokeActive = TRUE]
    IN  [u4 EXCEPT !.state = "falling"]

\* hit() without its last assignment, state = 'falling'
HitStaysHit(u) ==
    IF u.state = "flying"
    THEN LET u1 == [u EXCEPT !.state = "hit"]
             u2 == [u1 EXCEPT !.verticalVelocity = 0]
             u3 == [u2 EXCEPT !.lightOn = FALSE]
         IN  [u3 EXCEPT !.smokeActive = TRUE]
    ELSE u

\* hit() that resets the vertical velocity before its test of the state
HitResetsVelocityFirst(u) ==
    LET u0 == [u EXCEPT !.verticalVelocity = 0] IN
    IF u0.state = "flying"
    THEN LET u1 == [u0 EXCEPT !.state = "hit"]
             u3 == [u1 EXCEPT !.lightOn = FALSE]
             u4 == [u3 EXCEPT !.smokeActive = TRUE]
         IN  [u4 EXCEPT !.state = "falling"]
    ELSE u0

\* Ufo.hit()
Hit(u) ==
    IF u.state = "flying"
    THEN LET u1 == [u EXCEPT !.state = "hit"]
             u2 == [u1 EXCEPT !.verticalVelocity = 0]
             u3 == [u2 EXCEPT !.lightOn = FALSE]
             u4 == [u3 EXCEPT !.smokeActive = TRUE]
         IN  [u4 EXCEPT !.state = "falling"]
    ELSE u

\* Ufo.updateFlying
UpdateFlying(u, hover) ==
    [u EXCEPT !.y = OrbitCentreY + u.pathHeight + hover, !.lightOn = TRUE]

\* updateFalling without the gravity step: the velocity is left as it was
UpdateFallingNoGravity(u, dt) ==
    LET v == u.verticalVelocity
        ny == u.y + v * dt
    IN  IF ny <= 0
        THEN [u EXCEPT !.verticalVelocity = v, !.y = 0, !.state = "crashed",
                       !.needsCrashEffect = TRUE, !.smokeActive = FALSE]
        ELSE [u EXCEPT !.verticalVelocity = v, !.y = ny]

\* Ufo.updateFalling
UpdateFalling(u, dt) ==
    LET v == u.verticalVelocity - GravityPerTick * dt
        ny == u.y + v * dt
    IN  IF ny <= 0
        THEN [u EXCEPT !.verticalVelocity = v, !.y = 0, !.state = "crashed",
                       !.needsCrashEffect = TRUE, !.smokeActive = FALSE]
        ELSE [u EXCEPT !.verticalVelocity = v, !.y = ny]

\* Ufo.fireLaser with the Space Needle at health h: the beam becomes visible
\* and the traversal damages the Space Needle once per mesh the ray meets in
\* front of the target point (k meshes)
FireLaser(u, h, k) ==
    [ufo |-> [u EXCEPT !.laserVisible = TRUE, !.laserActive = TRUE,
                       !.laserTimer = LaserDuration],
     health |-> ApplyHits(h, k)]

\* Ufo.deactivateLaser
DeactivateLaser(u) == [u EXCEPT !.laserVisible = FALSE, !.laserActive = FALSE]

\* Ufo.update, Ufo.updateLaser: the conditions under which update(dt) calls
\* fireLaser
FiresLaser(u, dt) ==
    /\ u.state = "flying"
    /\ u.laserCooldown - dt <= 0 /\ ~u.laserActive
    /\ u.nextLaserTime - dt <= 0

\* the decision to fire without a new nextLaserTime after the fire
LaserFireStageKeepsNextTime(u, h, dt, draws) ==
    LET u1 == [u EXCEPT !.laserCooldown = u.laserCooldown - dt] IN
    IF u1.laserCooldown <= 0 /\ ~u1.laserActive
    THEN LET u2 == [u1 EXCEPT !.nextLaserTime = u1.nextLaserTime - dt] IN
         IF u2.nextLaserTime <= 0
         THEN {[ufo |-> FireLaser(u2, h, k).ufo,
                health |-> FireLaser(u2, h, k).health] : k \in 0..MaxRayHits}
         ELSE {[ufo |-> u2, health |-> h]}
    ELSE {[ufo |-> u1, health |-> h]}

\* Ufo.updateLaser, first half: cooldown and the decision to fire.
\* The result is the set of outcomes [ufo, health] over the random draws
\* and over the number of meshes the ray meets.
LaserFireStage(u, h, dt, draws) ==
    LET u1 == [u EXCEPT !.laserCooldown = u.laserCooldown - dt] IN
    IF u1.laserCooldown <= 0 /\ ~u1.laserActive
    THEN LET u2 == [u1 EXCEPT !.nextLaserTime = u1.nextLaserTime - dt] IN
         IF u2.nextLaserTime <= 0
         THEN {[ufo |-> [FireLaser(u2, h, k).ufo EXCEPT !.nextLaserTime = nt],
                health |-> FireLaser(u2, h, k).health] :
                   nt \in draws.next, k \in 0..MaxRayHits}
         ELSE {[ufo |-> u2, health |-> h]}
    ELSE {[ufo |-> u1, health |-> h]}

\* Ufo.updateLaser, second half: the timer of an active beam
LaserTimerStage(u, dt, draws) ==
    IF u.laserActive
    THEN LET u1 == [u EXCEPT !.laserTimer = u.laserTimer - dt] IN
         IF u1.laserTimer <= 0
         THEN {[DeactivateLaser(u1) EXCEPT !.laserCooldown = cd] :
                   cd \in draws.cooldown}
         ELSE {u1}
    ELSE {u}

\* Ufo.updateLaser
UpdateLaser(u, h, dt, draws) ==
    UNION {{[ufo |-> u2, health |-> o.health] :
               u2 \in LaserTimerStage(o.ufo, dt, draws)} :
           o \in LaserFireStage(u, h, dt, draws)}

\* update() that keeps applying the fall to a crashed UFO
UfoUpdateCrashedFalls(u, h, dt, hover, draws) ==
    CASE u.state = "flying"  -> UpdateLaser(UpdateFlying(u, hover), h, dt, draws)
      [] u.state = "falling" -> {[ufo |-> UpdateFalling(u, dt), health |-> h]}
      [] u.state = "hit"     -> {[ufo |-> u, health |-> h]}
      [] u.state = "crashed" -> {[ufo |-> UpdateFalling(u, dt), health |-> h]}

\* Ufo.update(deltaTime): the set of outcomes [ufo, health]
UfoUpdate(u, h, dt, hover, draws) ==
    CASE u.state = "flying"  -> UpdateLaser(UpdateFlying(u, hover), h, dt, draws)
      [] u.state = "falling" -> {[ufo |-> UpdateFalling(u, dt), health |-> h]}
      [] u.state = "hit"     -> {[ufo |-> u, health |-> h]}
      [] u.state = "crashed" -> {[ufo |-> u, health |-> h]}

(***************************************************************************)
(* PhysicsEngine (the plane).  Units:                                      *)
(*   angle      1 unit = 1/600000 rad                                      *)
(*   turn rate  1 unit = 1/10000 rad per second = 1 angle unit per tick    *)
(*   speed      1 unit = 1/6 world unit per second                         *)
(*   distance   1 unit = 1/360 world unit                                  *)
(* Products that do not fall on a unit are cut off toward zero.  The       *)
(* rotationQuaternion is held as the Euler angles (YXZ) it was set from,   *)
(* the yaw wrapped into (-pi, pi].  The position of the plane is held as   *)
(* the distance it moved in the latest frame or update call.               *)
(***************************************************************************)
\* quotient cut off toward zero
Quot(a, b) == IF a >= 0 THEN a \div b ELSE -((-a) \div b)

\* THREE.MathUtils.clamp
Clamp(x, lo, hi) == Max(lo, Min(hi, x))

\* THREE.MathUtils.lerp(x, y, num / den)
Lerp(x, y, num, den) == x + Quot((y - x) * num, den)

\* pi, three times the 60 degrees of maxPitchAngle
PiAngle == 3 * MaxPitchAngle

\* an angle as atan2 returns it, in (-pi, pi]
WrapAngle(a) ==
    LET r == a % (2 * PiAngle) IN IF r > PiAngle THEN r - 2 * PiAngle ELSE r

\* Quaternion.setFromEuler(e), order YXZ
QuaternionFromEuler(e) == [pitch |-> e.x, yaw |-> WrapAngle(e.y), roll |-> e.z]

\* Euler.setFromQuaternion(q, 'YXZ'); the pitch of q is inside (-90, 90)
\* degrees
EulerFromQuaternion(q) == [x |-> q.pitch, y |-> q.yaw, z |-> q.roll]

\* the identity quaternion
IdentityQuaternion == [pitch |-> 0, yaw |-> 0, roll |-> 0]

\* loadTerrainAndEnvironment: the plane looks along +x, the default forward
\* direction (0, 0, -1) turned by -90 degrees about the y axis
InitialRotation == [pitch |-> 0, yaw |-> -(PiAngle \div 2), roll |-> 0]

\* no input: inputController with no key pressed
NeutralInputs == [pitch |-> 0, roll |-> 0, accelerate |-> 0, decelerate |-> 0]

\* the inputs followed in a game session
FrameInputs == {NeutralInputs}

\* playerPlane and physicsEngine before they are created
NoPlane == [created |-> FALSE]

\* new PhysicsEngine(plane.mesh) on a plane set to the quaternion q
NewPhysicsEngine(q) ==
    [created |-> TRUE,
     speed |-> ConstructedSpeed,
     initialSpeed |-> ConstructedSpeed,
     currentPitchRate |-> 0,
     currentRollRate |-> 0,
     rotationQuaternion |-> q,
     enabled |-> TRUE,
     moved |-> 0]

\* PhysicsEngine.update without step 4, the limits of pitch and roll
PhysicsUpdateUnlimited(p, inputs, dt) ==
    IF ~p.enabled THEN [p EXCEPT !.moved = 0]
    ELSE
    LET speed1 == IF inputs.accelerate > 0 THEN p.speed + SpeedChangePerTick * dt
                  ELSE IF inputs.decelerate > 0 THEN p.speed - SpeedChangePerTick * dt
                  ELSE p.speed
        speed == Clamp(speed1, MinSpeed, MaxSpeed)
        targetPitchRate == inputs.pitch * PitchSensitivity
        targetRollRate == inputs.roll * RollSensitivity
        pitchRate == Lerp(p.currentPitchRate, targetPitchRate, 1, 10)
        rollRate == Lerp(p.currentRollRate, targetRollRate, 1, 10)
        currentEuler == EulerFromQuaternion(p.rotationQuaternion)
        \* bankingTurnFactor 1.0: rad/s per rad of roll
        deltaYaw == Quot(currentEuler.z * dt, 60)
        nx == currentEuler.x + pitchRate * dt
        ny == currentEuler.y + deltaYaw
        nz == currentEuler.z + rollRate * dt
        \* auto-levelling, autoLevelFactor * deltaTime = 2.0 * dt / 60
        levelled == inputs.pitch = 0 /\ inputs.roll = 0
        lx == IF levelled THEN Lerp(nx, 0, 2 * dt, 60) ELSE nx
        lz == IF levelled THEN Lerp(nz, 0, 2 * dt, 60) ELSE nz
        nextEuler == [x |-> lx,
                      y |-> ny,
                      z |-> lz]
    IN  [p EXCEPT !.speed = speed,
                  !.currentPitchRate = pitchRate,
                  !.currentRollRate = rollRate,
                  !.rotationQuaternion = QuaternionFromEuler(nextEuler),
                  !.moved = speed * dt]

\* PhysicsEngine.update(inputs, deltaTime)
PhysicsUpdate(p, inputs, dt) ==
    IF ~p.enabled THEN [p EXCEPT !.moved = 0]
    ELSE
    LET speed1 == IF inputs.accelerate > 0 THEN p.speed + SpeedChangePerTick * dt
                  ELSE IF inputs.decelerate > 0 THEN p.speed - SpeedChangePerTick * dt
                  ELSE p.speed
        speed == Clamp(speed1, MinSpeed, MaxSpeed)
        targetPitchRate == inputs.pitch * PitchSensitivity
        targetRollRate == inputs.roll * RollSensitivity
        pitchRate == Lerp(p.currentPitchRate, targetPitchRate, 1, 10)
        rollRate == Lerp(p.currentRollRate, targetRollRate, 1, 10)
        currentEuler == EulerFromQuaternion(p.rotationQuaternion)
        \* bankingTurnFactor 1.0: rad/s per rad of roll
        deltaYaw == Quot(currentEuler.z * dt, 60)
        nx == currentEuler.x + pitchRate * dt
        ny == currentEuler.y + deltaYaw
        nz == currentEuler.z + rollRate * dt
        \* auto-levelling, autoLevelFactor * deltaTime = 2.0 * dt / 60
        levelled == inputs.pitch = 0 /\ inputs.roll = 0
        lx == IF levelled THEN Lerp(nx, 0, 2 * dt, 60) ELSE nx
        lz == IF levelled THEN Lerp(nz, 0, 2 * dt, 60) ELSE nz
        nextEuler == [x |-> Clamp(lx, -MaxPitchAngle, MaxPitchAngle),
                      y |-> ny,
                      z |-> Clamp(lz, -MaxRollAngle, MaxRollAngle)]
    IN  [p EXCEPT !.speed = speed,
                  !.currentPitchRate = pitchRate,
                  !.currentRollRate = rollRate,
                  !.rotationQuaternion = QuaternionFromEuler(nextEuler),
                  !.moved = speed * dt]

\* PhysicsEngine.setEnabled
SetEnabled(p, enabled) == [p EXCEPT !.enabled = enabled]

\* PhysicsEngine.reset
PhysicsReset(p) ==
    [p EXCEPT !.speed = p.initialSpeed,
              !.rotationQuaternion = IdentityQuaternion,
              !.currentPitchRate = 0,
              !.currentRollRate = 0]

(***************************************************************************)
(* coordinateUtils.ts: the projection.  Units:                             *)
(*   longitude, latitude   1 unit = 1e-7 degree                            *)
(*   UTM easting, northing 1 unit = 1 cm                                   *)
(*   game x, z             1 unit = 1e-4 world unit                        *)
(* proj4 from WGS84 to UTM zone 10N is followed on the Seattle bounding    *)
(* box by its linearisation at the centre of the box (within 23 m of the   *)
(* projection everywhere on the box), and proj4 back to WGS84 by the       *)
(* inverse of that map, computed on its own from the UTM coordinates.      *)
(***************************************************************************)
\* x * k = q * d + r with 0 <= r < d, for x >= 0, k >= 0, d > 0, computed
\* without a product beyond 32 bits
RECURSIVE MulDivPair(_, _, _)
MulDivPair(x, k, d) ==
    IF k = 0 THEN [q |-> 0, r |-> 0]
    ELSE LET h == MulDivPair(x, k \div 2, d)
             odd == k % 2 = 1
             t == 2 * h.r + (IF odd THEN x % d ELSE 0)
         IN  [q |-> 2 * h.q + (IF odd THEN x \div d ELSE 0) + t \div d,
              r |-> t % d]

\* x * k / d, cut off toward zero
MulDiv(x, k, d) ==
    IF x >= 0 THEN MulDivPair(x, k, d).q ELSE -MulDivPair(-x, k, d).q

\* the point where proj4 is linearised: the centre of the Seattle bounding
\* box, (-122.375, 47.625), and its UTM coordinates (546958.97, 5274811.11)
UtmReference ==
    [lng |-> -1223750000, lat |-> 476250000, x |-> 54695897, y |-> 527481111]

\* cm of easting and northing per 1000 units of longitude and of latitude
UtmPerGeo == [xLng |-> 751, xLat |-> -9, yLng |-> 6, yLat |-> 1111]

\* proj4('EPSG:4326', 'EPSG:32610', [longitude, latitude])
Proj4Forward(longitude, latitude) ==
    LET dLng == longitude - UtmReference.lng
        dLat == latitude - UtmReference.lat
    IN  [x |-> UtmReference.x
                 + Quot(UtmPerGeo.xLng * dLng + UtmPerGeo.xLat * dLat, 1000),
         y |-> UtmReference.y
                 + Quot(UtmPerGeo.yLng * dLng + UtmPerGeo.yLat * dLat, 1000)]

\* proj4('EPSG:32610', 'EPSG:4326', [utmX, utmY])
Proj4Inverse(utmX, utmY) ==
    LET dx == utmX - UtmReference.x
        dy == utmY - UtmReference.y
        det == UtmPerGeo.xLng * UtmPerGeo.yLat - UtmPerGeo.xLat * UtmPerGeo.yLng
    IN  [lng |-> UtmReference.lng
                   + MulDiv(UtmPerGeo.yLat * dx - UtmPerGeo.xLat * dy, 1000, det),
         lat |-> UtmReference.lat
                   + MulDiv(UtmPerGeo.xLng * dy - UtmPerGeo.yLng * dx, 1000, det)]

\* module state of coordinateUtils.ts at load: utmCenterX, utmCenterY,
\* boundingBoxCalculated, terrainBaseSize, calculatedScaleFactor (as the
\* quotient scaleNum / scaleDen); centerCalls counts setProjectionCenter
NoProjection ==
    [utmCenterX |-> 0, utmCenterY |-> 0, boundingBoxCalculated |-> FALSE,
     terrainBaseSize |-> TerrainBaseSize * GameScale,
     scaleNum |-> 1, scaleDen |-> 1, centerCalls |-> 0]

\* projectToGameCoords(longitude, latitude, applyScaleFactor)
ProjectToGameCoords(ps, longitude, latitude, applyScaleFactor) ==
    LET utm == Proj4Forward(longitude, latitude)
        gameX == (utm.x - ps.utmCenterX) * 100
        gameZ == (ps.utmCenterY - utm.y) * 100
    IN  IF ~ps.boundingBoxCalculated
        THEN [x |-> (utm.x - TempUtmCenterX) * 100,
              z |-> (TempUtmCenterY - utm.y) * 100,
              centred |-> FALSE]
        ELSE IF applyScaleFactor
        THEN [x |-> MulDiv(gameX, ps.scaleNum, ps.scaleDen),
              z |-> MulDiv(gameZ, ps.scaleNum, ps.scaleDen),
              centred |-> TRUE]
        ELSE [x |-> gameX, z |-> gameZ, centred |-> TRUE]

\* setTerrainSize(baseSize)
SetTerrainSize(ps, baseSize) == [ps EXCEPT !.terrainBaseSize = baseSize]

\* calculateScaleFactor
CalculateScaleFactor(ps, geoBounds) ==
    LET Extent(lo, hi) ==
            Max(Max(hi.x - lo.x, lo.x - hi.x), Max(hi.z - lo.z, lo.z - hi.z))
    IN  IF ~ps.boundingBoxCalculated THEN ps
        ELSE [ps EXCEPT
                !.scaleNum = (ps.terrainBaseSize \div 10) * 8,
                !.scaleDen =
                    Extent(ProjectToGameCoords(ps, geoBounds.minLng,
                                               geoBounds.minLat, FALSE),
                           ProjectToGameCoords(ps, geoBounds.maxLng,
                                               geoBounds.maxLat, FALSE))]

\* setProjectionCenter(minLng, maxLng, minLat, maxLat)
SetProjectionCenter(ps, minLng, maxLng, minLat, maxLat) ==
    LET centerLng == minLng + (maxLng - minLng) \div 2
        centerLat == minLat + (maxLat - minLat) \div 2
        center == Proj4Forward(centerLng, centerLat)
    IN  CalculateScaleFactor(
            [ps EXCEPT !.utmCenterX = center.x,
                       !.utmCenterY = center.y,
                       !.boundingBoxCalculated = TRUE,
                       !.centerCalls = @ + 1],
            [minLng |-> minLng, maxLng |-> maxLng,
             minLat |-> minLat, maxLat |-> maxLat])

\* gameToGeoCoords that takes every input as unscaled
GameToGeoCoordsNeverUnscales(ps, x, z, isScaled) ==
    IF ~ps.boundingBoxCalculated THEN [lng |-> 0, lat |-> 0]
    ELSE Proj4Inverse(Quot(x, 100) + ps.utmCenterX, ps.utmCenterY - Quot(z, 100))

\* gameToGeoCoords(x, z, isScaled)
GameToGeoCoords(ps, x, z, isScaled) ==
    IF ~ps.boundingBoxCalculated THEN [lng |-> 0, lat |-> 0]
    ELSE
    LET unscaledX == IF isScaled THEN MulDiv(x, ps.scaleDen, ps.scaleNum) ELSE x
        unscaledZ == IF isScaled THEN MulDiv(z, ps.scaleDen, ps.scaleNum) ELSE z
        utmX == Quot(unscaledX, 100) + ps.utmCenterX
        utmY == ps.utmCenterY - Quot(unscaledZ, 100)
    IN  Proj4Inverse(utmX, utmY)

\* SEATTLE_BOUNDS, the geographic bounds of the elevation grid
SeattleBounds ==
    [minLng |-> -1225000000, maxLng |-> -1222500000,
     minLat |-> 475000000, maxLat |-> 477500000]

\* SPACE_NEEDLE_COORDINATES
SpaceNeedleCoordinates == [longitude |-> -1223490000, latitude |-> 476230000]

(***************************************************************************)
(* SeattleElevationGrid.ts: the elevation grid and the terrain mesh.       *)
(* Heights and elevation samples are in 1/100 world unit, x and z in game  *)
(* coordinate units.  A cell of the grid is a record: a number, NaN, or    *)
(* something that is not a number (undefined, null); a row is present or   *)
(* not.  A vertex height is the value assigned to vertices[i+1]; the       *)
(* rounding of that value to 32-bit floating point by the Float32Array is  *)
(* below the resolution of the heights and is not followed.                *)
(***************************************************************************)
\* UNDERWATER_VERTEX_HEIGHT = WATER_LEVEL - 0.01
UnderwaterVertexHeight == WaterLevel - 1

\* TERRAIN_BASE_SIZE * 0.8 and TERRAIN_BASE_SIZE * 0.4
TerrainPlaneSize == ((TerrainBaseSize * GameScale) \div 10) * 8
HalfSize == ((TerrainBaseSize * GameScale) \div 10) * 4

NumberCell(v) == [type |-> "number", nan |-> FALSE, value |-> v]
NaNCell == [type |-> "number", nan |-> TRUE, value |-> 0]
UndefinedCell == [type |-> "undefined", nan |-> FALSE, value |-> 0]
MissingRow == [present |-> FALSE, cells |-> << >>]

\* elevationData before loadElevationData has succeeded
NoElevationData == [loaded |-> FALSE]

\* Math.floor(normalized * dataSize), normalized = (c + halfSize) / (TERRAIN_BASE_SIZE * 0.8)
GridIndex(c, dataSize) == ((c + HalfSize) * dataSize) \div TerrainPlaneSize

\* the height of a vertex if only samples below WATER_LEVEL were under water
VertexHeightBelowOnly(data, x, z) ==
    LET dataSize == data.size
        grid == data.grid
        gridX == GridIndex(x, dataSize)
        gridZ == GridIndex(z, dataSize)
        elevation ==
            IF gridX >= 0 /\ gridX < dataSize /\ gridZ >= 0 /\ gridZ < dataSize
            THEN IF grid[gridZ + 1].present
                    /\ grid[gridZ + 1].cells[gridX + 1].type = "number"
                 THEN IF grid[gridZ + 1].cells[gridX + 1].nan
                      THEN WaterLevel
                      ELSE grid[gridZ + 1].cells[gridX + 1].value
                 ELSE WaterLevel
            ELSE WaterLevel
    IN  IF elevation < WaterLevel THEN UnderwaterVertexHeight
        ELSE elevation * ElevationScale

\* createSeattleTerrainFromGrid: the height given to the vertex at (x, z)
VertexHeight(data, x, z) ==
    LET dataSize == data.size
        grid == data.grid
        gridX == GridIndex(x, dataSize)
        gridZ == GridIndex(z, dataSize)
        elevation ==
            IF gridX >= 0 /\ gridX < dataSize /\ gridZ >= 0 /\ gridZ < dataSize
            THEN IF grid[gridZ + 1].present
                    /\ grid[gridZ + 1].cells[gridX + 1].type = "number"
                 THEN IF grid[gridZ + 1].cells[gridX + 1].nan
                      THEN WaterLevel
                      ELSE grid[gridZ + 1].cells[gridX + 1].value
                 ELSE WaterLevel
            ELSE WaterLevel
    IN  IF elevation <= WaterLevel THEN UnderwaterVertexHeight
        ELSE elevation * ElevationScale

\* PlaneGeometry(size, size, GRID_SIZE - 1, GRID_SIZE - 1): the coordinate of
\* the i-th line of vertices, i in 0..MeshSize-1
VertexCoordinate(i) == Quot(i * TerrainPlaneSize, MeshSize - 1) - HalfSize

\* the vertices of the terrain mesh, by column and row
MeshVertices == (0..(MeshSize - 1)) \X (0..(MeshSize - 1))

\* the scene without a terrain mesh
NoTerrain == [created |-> FALSE]

\* THREE.PlaneGeometry with n vertices on a side: the faces in index order,
\* two per cell, row by row; cell (ix, iy) has the corners a = (ix, iy),
\* b = (ix, iy + 1), c = (ix + 1, iy + 1), d = (ix + 1, iy) and the faces
\* (a, b, d) and (b, c, d).  A vertex is <<column, row>>.
PlaneFaces(n) ==
    [f \in 1..(2 * (n - 1) * (n - 1)) |->
        LET cell == (f - 1) \div 2
            ix == cell % (n - 1)
            iy == cell \div (n - 1)
        IN  IF (f - 1) % 2 = 0
            THEN <<(<<ix, iy>>), (<<ix, iy + 1>>), (<<ix + 1, iy>>)>>
            ELSE <<(<<ix, iy + 1>>), (<<ix + 1, iy + 1>>), (<<ix + 1, iy>>)>>]

\* Math.abs(y - UNDERWATER_VERTEX_HEIGHT) < epsilon, epsilon = 0.001, for a
\* height y given in 1/perUnit of the height unit
WithinEpsilon(y, perUnit) ==
    10 * Max(y - UnderwaterVertexHeight * perUnit,
             UnderwaterVertexHeight * perUnit - y) < perUnit

\* faceMaterialIndex with a water face being one that has some vertex at the
\* underwater height
FaceMaterialIndexAnyVertex(height, face, perUnit) ==
    IF \E k \in 1..3 : WithinEpsilon(height[face[k]], perUnit) THEN 1 ELSE 0

\* faceMaterialIndex: 1 (water) if all three vertices of the face are at the
\* underwater height, 0 (land) otherwise
FaceMaterialIndex(height, face, perUnit) ==
    IF \A k \in 1..3 : WithinEpsilon(height[face[k]], perUnit) THEN 1 ELSE 0

\* the loop over the faces from face i (counted from 0) on: groups added so
\* far, currentMaterialIndex and groupStart
RECURSIVE GroupFaces(_, _, _, _, _)
GroupFaces(i, tags, groups, currentMaterialIndex, groupStart) ==
    IF i >= Len(tags) THEN groups
    ELSE
    LET faceIndex == i * 3
        faceMaterialIndex == tags[i + 1]
        changed == i # 0 /\ faceMaterialIndex # currentMaterialIndex
        groups1 == IF changed
                   THEN Append(groups, [start |-> groupStart,
                                        count |-> faceIndex - groupStart,
                                        materialIndex |-> currentMaterialIndex])
                   ELSE groups
        start1 == IF changed THEN faceIndex ELSE groupStart
        current1 == IF i = 0 \/ changed THEN faceMaterialIndex
                    ELSE currentMaterialIndex
        groups2 == IF i = Len(tags) - 1
                   THEN Append(groups1, [start |-> start1,
                                         count |-> 3 * Len(tags) - start1,
                                         materialIndex |-> current1])
                   ELSE groups1
    IN  GroupFaces(i + 1, tags, groups2, current1, start1)

\* createSeattleTerrainFromGrid: clearGroups and the material groups of a
\* geometry with n vertices on a side and the given vertex heights
AssignMaterialGroups(height, n, perUnit) ==
    GroupFaces(0, [f \in 1..Len(PlaneFaces(n)) |->
                      FaceMaterialIndex(height, PlaneFaces(n)[f], perUnit)],
               << >>, -1, 0)

\* the heights of the vertices of the terrain mesh
MeshHeights(data) ==
    [v \in MeshVertices |->
        VertexHeight(data, VertexCoordinate(v[1]), VertexCoordinate(v[2]))]

\* createSeattleTerrainFromGrid: the loop over the vertices and the material
\* groups
TerrainMesh(data) ==
    [created |-> TRUE,
     height |-> MeshHeights(data),
     groups |-> AssignMaterialGroups(MeshHeights(data), MeshSize, 1)]

\* getTerrainElevation that takes the nearest cell for a point outside the
\* grid
GetTerrainElevationNearestCell(elevationData, x, z) ==
    IF ~elevationData.loaded THEN 0
    ELSE
    LET dataSize == elevationData.size
        grid == elevationData.grid
        gridX == Clamp(GridIndex(x, dataSize), 0, dataSize - 1)
        gridZ == Clamp(GridIndex(z, dataSize), 0, dataSize - 1)
        sampled ==
            /\ grid[gridZ + 1].present
            /\ grid[gridZ + 1].cells[gridX + 1].type = "number"
            /\ ~grid[gridZ + 1].cells[gridX + 1].nan
        elevation == IF sampled THEN grid[gridZ + 1].cells[gridX + 1].value
                     ELSE WaterLevel
    IN  IF elevation <= WaterLevel THEN UnderwaterVertexHeight
        ELSE elevation * ElevationScale

\* getTerrainElevation(x, z)
GetTerrainElevation(elevationData, x, z) ==
    IF ~elevationData.loaded THEN 0
    ELSE
    LET dataSize == elevationData.size
        grid == elevationData.grid
        gridX == GridIndex(x, dataSize)
        gridZ == GridIndex(z, dataSize)
        sampled ==
            /\ gridX >= 0 /\ gridX < dataSize /\ gridZ >= 0 /\ gridZ < dataSize
            /\ grid[gridZ + 1].present
            /\ grid[gridZ + 1].cells[gridX + 1].type = "number"
            /\ ~grid[gridZ + 1].cells[gridX + 1].nan
        elevation == IF sampled THEN grid[gridZ + 1].cells[gridX + 1].value
                     ELSE WaterLevel
    IN  IF elevation <= WaterLevel THEN UnderwaterVertexHeight
        ELSE elevation * ElevationScale

\* a fetch of seattle_elevation_grid.json that failed, or a response that
\* could not be parsed
FailedFetch == [ok |-> FALSE]

\* the calls of loadElevationData: none has been made, no fetch issued
NoLoads == [calls |-> << >>, fetches |-> 0]

\* loadElevationData up to its first await: the cached data is returned, or
\* fetch('./src/seattle_elevation_grid.json') is issued
LoadElevationDataOn(sc, ld) ==
    IF sc.elevationData.loaded
    THEN [ld EXCEPT !.calls = Append(@, [pc |-> "returned", fetch |-> 0,
                                         returned |-> sc.elevationData])]
    ELSE [ld EXCEPT !.calls = Append(@, [pc |-> "fetching",
                                         fetch |-> ld.fetches + 1,
                                         returned |-> NoElevationData]),
                    !.fetches = @ + 1]

\* loadElevationData after `await fetch(...)`: a response that is not ok, or
\* a rejected fetch, is thrown on; otherwise response.json() is awaited
FetchSettlesOn(ld, c, responseOk) ==
    [ld EXCEPT !.calls[c].pc = IF responseOk THEN "parsing" ELSE "threw"]

\* the object that response.json() of the given fetch resolves with
ParsedData(file, fetch) ==
    [loaded |-> TRUE, size |-> file.size, grid |-> file.grid,
     geographicBounds |-> file.geographicBounds, fetch |-> fetch]

\* loadElevationData after `await response.json()`: elevationData = data;
\* return data; or the parse error is thrown on
JsonSettlesOn(sc, ld, c, file) ==
    IF file.ok
    THEN [scene |-> [sc EXCEPT !.elevationData =
                                   ParsedData(file, ld.calls[c].fetch)],
          loads |-> [ld EXCEPT !.calls[c].pc = "returned",
                               !.calls[c].returned =
                                   ParsedData(file, ld.calls[c].fetch)]]
    ELSE [scene |-> sc, loads |-> [ld EXCEPT !.calls[c].pc = "threw"]]

\* loadElevationData and createSeattleTerrainFromGrid(scene): the projection
\* and the scene after it has resolved; an error of the load is caught and
\* logged inside it
CreateSeattleTerrainFromGrid(ps, sc, file) ==
    IF ~sc.elevationData.loaded /\ ~file.ok THEN [projection |-> ps, scene |-> sc]
    ELSE
    LET data == IF sc.elevationData.loaded THEN sc.elevationData
                ELSE [loaded |-> TRUE, size |-> file.size, grid |-> file.grid,
                      geographicBounds |-> file.geographicBounds]
        b == data.geographicBounds
    IN  [projection |-> SetProjectionCenter(SetTerrainSize(ps, TerrainBaseSize * GameScale),
                                            b.minLng, b.maxLng, b.minLat, b.maxLat),
         scene |-> [sc EXCEPT !.elevationData = data,
                              !.terrain = TerrainMesh(data)]]

(***************************************************************************)
(* main.ts: the frame loop                                                 *)
(***************************************************************************)
\* handleVictory without its test of gameStatus
HandleVictoryUnguarded(g) ==
    [g EXCEPT !.gameStatus = "won", !.victorySignals = @ + 1]

\* handleVictory, on the record g of game-state fields
HandleVictory(g) ==
    IF g.gameStatus # "playing" THEN g
    ELSE [g EXCEPT !.gameStatus = "won", !.victorySignals = @ + 1]

\* handleGameOver
HandleGameOver(g) ==
    IF g.gameStatus # "playing" THEN g
    ELSE [g EXCEPT !.gameStatus = "lost", !.lossSignals = @ + 1]

\* animate: ufos.forEach(ufo => ufo.update(deltaTime)), from index i on
RECURSIVE UpdateUfos(_, _, _, _)
UpdateUfos(i, g, dt, hover) ==
    IF i > Len(g.ufos) THEN {g}
    ELSE UNION {UpdateUfos(i + 1,
                           [g EXCEPT !.ufos[i] = o.ufo, !.health = o.health],
                           dt, hover) :
                    o \in UfoUpdate(g.ufos[i], g.health, dt, hover, FrameDraws)}

\* remove element i of a sequence: splice(i, 1)
Splice(s, i) == SubSeq(s, 1, i - 1) \o SubSeq(s, i + 1, Len(s))

\* Projectile.update: the new timeAlive
ProjectileUpdate(t, dt) == t + dt

\* the collision body with the victory test ufosDestroyed > totalUfos
HitUfoVictoryOffByOne(g, i, j) ==
    LET g1 == [g EXCEPT !.ufos[j] = Hit(g.ufos[j]),
                        !.playerScore = @ + ScorePerUfo,
                        !.ufosDestroyed = @ + 1]
        g2 == IF g1.ufosDestroyed > g1.totalUfos THEN HandleVictory(g1) ELSE g1
    IN  [g2 EXCEPT !.activeProjectiles = Splice(g2.activeProjectiles, i)]

\* the body of the collision test once projectile i met UFO j
HitUfo(g, i, j) ==
    LET g1 == [g EXCEPT !.ufos[j] = Hit(g.ufos[j]),
                        !.playerScore = @ + ScorePerUfo,
                        !.ufosDestroyed = @ + 1]
        g2 == IF g1.ufosDestroyed >= g1.totalUfos THEN HandleVictory(g1) ELSE g1
    IN  [g2 EXCEPT !.activeProjectiles = Splice(g2.activeProjectiles, i)]

\* the collision target without the test  if (ufo.state !== 'flying') continue
FirstTargetAnyState(g, near) ==
    IF near = {} THEN 0 ELSE CHOOSE j \in near : \A k \in near : j <= k

\* the UFO a projectile collides with: the first one in index order that is
\* flying and within the hit radius; `near` is the set within the radius
FirstTarget(g, near) ==
    LET c == {j \in near : g.ufos[j].state = "flying"} IN
    IF c = {} THEN 0 ELSE CHOOSE j \in c : \A k \in c : j <= k

\* the projectile loop with the collision test made before the test of
\* isActive
RECURSIVE UpdateProjectilesCollidesFirst(_, _, _)
UpdateProjectilesCollidesFirst(i, g, dt) ==
    IF i < 1 THEN {g}
    ELSE LET t == ProjectileUpdate(g.activeProjectiles[i], dt)
             g1 == [g EXCEPT !.activeProjectiles[i] = t]
         IN  UNION {UpdateProjectilesCollidesFirst(i - 1,
                        IF FirstTarget(g1, near) # 0
                        THEN HitUfo(g1, i, FirstTarget(g1, near))
                        ELSE IF ~(t < ProjectileLifespan)
                        THEN [g1 EXCEPT !.activeProjectiles =
                                            Splice(g1.activeProjectiles, i)]
                        ELSE g1,
                        dt) :
                        near \in SUBSET (1..Len(g1.ufos))}

\* animate: the projectile loop, from index i down to 1
RECURSIVE UpdateProjectiles(_, _, _)
UpdateProjectiles(i, g, dt) ==
    IF i < 1 THEN {g}
    ELSE LET t == ProjectileUpdate(g.activeProjectiles[i], dt)
             g1 == [g EXCEPT !.activeProjectiles[i] = t]
         IN  IF ~(t < ProjectileLifespan)
             THEN UpdateProjectiles(i - 1,
                      [g1 EXCEPT !.activeProjectiles = Splice(g1.activeProjectiles, i)],
                      dt)
             ELSE UNION {UpdateProjectiles(i - 1,
                             IF FirstTarget(g1, near) = 0 THEN g1
                             ELSE HitUfo(g1, i, FirstTarget(g1, near)),
                             dt) :
                             near \in SUBSET (1..Len(g1.ufos))}

\* the loss test with getHealth() < 0
CheckNeedleHealthStrict(g) ==
    IF g.sceneLoaded /\ g.health < 0 THEN HandleGameOver(g) ELSE g

\* animate: if (spaceNeedle && spaceNeedle.getHealth() <= 0) handleGameOver()
CheckNeedleHealth(g) ==
    IF g.sceneLoaded /\ g.health <= 0 THEN HandleGameOver(g) ELSE g

\* animate: the crash-effect loop
ConsumeCrashEffects(g) ==
    [g EXCEPT
       !.crashEffects = [i \in DOMAIN g.ufos |->
                            IF g.ufos[i].needsCrashEffect
                            THEN g.crashEffects[i] + 1 ELSE g.crashEffects[i]],
       !.ufos = [i \in DOMAIN g.ufos |->
                    [g.ufos[i] EXCEPT !.needsCrashEffect = FALSE]]]

\* animate: shooting input (currentTime - lastShotTime > SHOT_COOLDOWN)
Shoot(g, didShoot) ==
    IF g.sceneLoaded /\ didShoot /\ g.sinceLastShot > ShotCooldown
    THEN [g EXCEPT !.activeProjectiles = Append(@, 0), !.sinceLastShot = 0]
    ELSE g

\* animate: if (playerPlane && physicsEngine) physicsEngine.update(inputs, dt)
UpdatePlane(g, inputs, dt) ==
    IF g.plane.created THEN [g EXCEPT !.plane = PhysicsUpdate(g.plane, inputs, dt)]
    ELSE g

\* the game logic with the Space Needle health test made before the
\* projectile loop
GameLogicLossTestFirst(g, dt, hover, didShoot, inputs) ==
    UNION {{ConsumeCrashEffects(g3) :
               g3 \in UpdateProjectiles(Len(g2.activeProjectiles),
                                        CheckNeedleHealth(g2), dt)} :
           g2 \in UpdateUfos(1, UpdatePlane(Shoot(g, didShoot), inputs, dt),
                             dt, hover)}

\* animate, the game logic of an unpaused frame
GameLogic(g, dt, hover, didShoot, inputs) ==
    UNION {{ConsumeCrashEffects(CheckNeedleHealth(g3)) :
               g3 \in UpdateProjectiles(Len(g2.activeProjectiles), g2, dt)} :
           g2 \in UpdateUfos(1, UpdatePlane(Shoot(g, didShoot), inputs, dt),
                             dt, hover)}

\* updatePauseState without the setEnabled(true) of the unpause branch
UpdatePauseStateNoResume(g) ==
    LET newPauseState == g.isUserPaused \/ g.isAboutModalOpen IN
    IF newPauseState # g.isPaused
    THEN [g EXCEPT !.isPaused = newPauseState,
                   !.plane = IF g.plane.created /\ newPauseState
                             THEN SetEnabled(g.plane, FALSE) ELSE g.plane]
    ELSE g

\* updatePauseState
UpdatePauseState(g) ==
    LET newPauseState == g.isUserPaused \/ g.isAboutModalOpen IN
    IF newPauseState # g.isPaused
    THEN [g EXCEPT !.isPaused = newPauseState,
                   !.plane = IF g.plane.created
                             THEN SetEnabled(g.plane, ~newPauseState) ELSE g.plane]
    ELSE g

\* closeAboutModal
CloseAboutModalOn(g) ==
    IF ~g.isAboutModalOpen THEN g
    ELSE UpdatePauseState([g EXCEPT !.isAboutModalOpen = FALSE])

\* openAboutModal
OpenAboutModalOn(g) ==
    IF g.isAboutModalOpen THEN g
    ELSE UpdatePauseState([g EXCEPT !.isAboutModalOpen = TRUE])

\* animate: pause handling at the head of the frame
PauseToggle(g, didTogglePause) ==
    LET g1 == UpdatePauseState(g) IN
    IF g1.isGameStarted /\ didTogglePause
    THEN IF g1.isAboutModalOpen THEN CloseAboutModalOn(g1)
         ELSE UpdatePauseState([g1 EXCEPT !.isUserPaused = ~g1.isUserPaused])
    ELSE g1

\* animate() without the pause short-circuit
AnimateFrameIgnoresPause(g, dt, hover, didShoot, didTogglePause, inputs) ==
    LET g0 == [g EXCEPT !.sinceLastShot = Min(@ + dt, ShotCooldown + 1),
                        !.plane = IF g.plane.created
                                  THEN [g.plane EXCEPT !.moved = 0] ELSE g.plane]
        g1 == PauseToggle(g0, didTogglePause)
    IN
    GameLogic(g1, dt, hover, didShoot, inputs)

\* animate(): the outcomes of one frame
AnimateFrame(g, dt, hover, didShoot, didTogglePause, inputs) ==
    LET g0 == [g EXCEPT !.sinceLastShot = Min(@ + dt, ShotCooldown + 1),
                        !.plane = IF g.plane.created
                                  THEN [g.plane EXCEPT !.moved = 0] ELSE g.plane]
        g1 == PauseToggle(g0, didTogglePause)
    IN
    IF g1.isPaused THEN {g1} ELSE GameLogic(g1, dt, hover, didShoot, inputs)

(***************************************************************************)
(* State record and its assignment                                         *)
(***************************************************************************)
\* a thing that has not been placed in the scene
NotPlaced == [placed |-> FALSE]

\* main.ts at module load: elevationData is null, nothing is in the scene,
\* and spaceNeedleX, spaceNeedleZ are projected
ModuleLoadScene ==
    [elevationData |-> NoElevationData,
     terrain |-> NoTerrain,
     fallbackPlane |-> FALSE,
     spaceNeedleXZ |-> ProjectToGameCoords(NoProjection,
                                           SpaceNeedleCoordinates.longitude,
                                           SpaceNeedleCoordinates.latitude, TRUE),
     needleAt |-> NotPlaced,
     planeAt |-> NotPlaced,
     orbitCentre |-> NotPlaced]

\* new Ufo of createUfos over terrain of the given height (1/100 world unit)
NewUfoOver(i, firstLaser, terrainElevation) ==
    [NewUfo(i, firstLaser) EXCEPT
        !.y = terrainElevation * (LengthScale \div 100) + PathHeight(i)]

\* loadTerrainAndEnvironment with the elevation file that the fetch returns;
\* cityThrows: createCity throws, the catch block adds the fallback plane
LoadTerrainAndEnvironmentOn(g, file, cityThrows, first) ==
    LET \* createCity and what follows it, with the Space Needle at xz on
        \* terrain of height terrainElevation
        Populate(t, xz, terrainElevation) ==
            LET needle == [placed |-> TRUE, x |-> xz.x,
                           y |-> terrainElevation + 2 * 100,
                           z |-> xz.z, centred |-> xz.centred]
                start == [placed |-> TRUE,
                          x |-> g.scene.spaceNeedleXZ.x - 500 * GameScale,
                          y |-> terrainElevation + 2 * 100 + 200 * 100,
                          z |-> g.scene.spaceNeedleXZ.z - 500 * GameScale,
                          centred |-> g.scene.spaceNeedleXZ.centred]
            IN  IF cityThrows
                THEN [g EXCEPT !.sceneLoaded = TRUE,
                               !.projection = t.projection,
                               !.scene = [t.scene EXCEPT !.fallbackPlane = TRUE]]
                ELSE [g EXCEPT !.sceneLoaded = TRUE,
                               !.health = InitialHealth,
                               !.ufos = [i \in 1..NumUfos |->
                                           NewUfoOver(i, first[i], terrainElevation)],
                               !.totalUfos = NumUfos,
                               !.plane = NewPhysicsEngine(InitialRotation),
                               !.crashEffects = [i \in 1..NumUfos |-> 0],
                               !.projection = t.projection,
                               !.scene = [t.scene EXCEPT !.needleAt = needle,
                                                         !.planeAt = start,
                                                         !.orbitCentre = needle]]
        \* addSpaceNeedleToScene: the terrain under the projected Space Needle
        Locate(t, xz) ==
            Populate(t, xz, GetTerrainElevation(t.scene.elevationData, xz.x, xz.z))
        \* after createSeattleTerrainFromGrid has resolved with t
        Continue(t) ==
            Locate(t, ProjectToGameCoords(t.projection,
                                          SpaceNeedleCoordinates.longitude,
                                          SpaceNeedleCoordinates.latitude, TRUE))
    IN  Continue(CreateSeattleTerrainFromGrid(g.projection, g.scene, file))

\* the elevation file of the sessions that are followed: the terrain is
\* TerrainElevation high everywhere
SessionFile ==
    [ok |-> TRUE, size |-> DataSize, geographicBounds |-> SeattleBounds,
     grid |-> [r \in 1..DataSize |->
                 [present |-> TRUE,
                  cells |-> [c \in 1..DataSize |-> NumberCell(TerrainElevation * 100)]]]]

SessionElevationFiles == {SessionFile}

\* the module state and the scene of a session after loadTerrainAndEnvironment
SessionLoaded ==
    LoadTerrainAndEnvironmentOn(
        [sceneLoaded |-> FALSE, health |-> InitialHealth, ufos |-> << >>,
         totalUfos |-> 0, plane |-> NoPlane, crashEffects |-> << >>,
         projection |-> NoProjection, scene |-> ModuleLoadScene],
        SessionFile, FALSE, [i \in 1..NumUfos |-> 0])

Current ==
    [ufos |-> ufos, health |-> health, activeProjectiles |-> activeProjectiles,
     playerScore |-> playerScore, totalUfos |-> totalUfos,
     ufosDestroyed |-> ufosDestroyed, gameStatus |-> gameStatus,
     isPaused |-> isPaused, isUserPaused |-> isUserPaused,
     isAboutModalOpen |-> isAboutModalOpen, isGameStarted |-> isGameStarted,
     sceneLoaded |-> sceneLoaded, sinceLastShot |-> sinceLastShot,
     victorySignals |-> victorySignals,
     lossSignals |-> lossSignals, crashEffects |-> crashEffects,
     plane |-> plane, projection |-> projection, scene |-> scene]

Becomes(g) ==
    /\ ufos' = g.ufos
    /\ health' = g.health
    /\ activeProjectiles' = g.activeProjectiles
    /\ playerScore' = g.playerScore
    /\ totalUfos' = g.totalUfos
    /\ ufosDestroyed' = g.ufosDestroyed
    /\ gameStatus' = g.gameStatus
    /\ isPaused' = g.isPaused
    /\ isUserPaused' = g.isUserPaused
    /\ isAboutModalOpen' = g.isAboutModalOpen
    /\ isGameStarted' = g.isGameStarted
    /\ sceneLoaded' = g.sceneLoaded
    /\ sinceLastShot' = g.sinceLastShot
    /\ victorySignals' = g.victorySignals
    /\ lossSignals' = g.lossSignals
    /\ crashEffects' = g.crashEffects
    /\ plane' = g.plane
    /\ projection' = g.projection
    /\ scene' = g.scene

NoCall == [op |-> "none"]

\* a session is followed while the Space Needle is within ExploredDamage of
\* full health, or on its last health points
Explored ==
    \/ health > InitialHealth - ExploredDamage
    \/ \E h \in SiegeHealths : health <= h

(***************************************************************************)
(* The game session                                                        *)
(***************************************************************************)
\* module load and DOMContentLoaded: the start modal is shown, the scene is
\* still loading
InitFresh ==
    /\ ufos = << >>
    /\ health = InitialHealth
    /\ activeProjectiles = << >>
    /\ playerScore = 0
    /\ totalUfos = 0
    /\ ufosDestroyed = 0
    /\ gameStatus = "playing"
    /\ isPaused = TRUE
    /\ isUserPaused = FALSE
    /\ isAboutModalOpen = FALSE
    /\ isGameStarted = FALSE
    /\ sceneLoaded = FALSE
    /\ sinceLastShot = 0
    /\ victorySignals = 0
    /\ lossSignals = 0
    /\ crashEffects = << >>
    /\ plane = NoPlane
    /\ projection = NoProjection
    /\ scene = ModuleLoadScene
    /\ loads = NoLoads
    /\ lastCall = NoCall

\* a UFO in flight whose beam has just gone out: updateLaser drew the next
\* firing time when it fired and the cooldown when it deactivated the beam
CruisingUfo(i, nextLaser, cooldown, hover) ==
    UpdateFlying([NewUfo(i, nextLaser) EXCEPT !.laserCooldown = cooldown], hover)

\* a session in which the player has not fired and the lasers of the UFOs
\* have worn the Space Needle down to its last health points
InitSiege ==
    \E dt0 \in FrameDeltaTimes :
    /\ ufos \in {[i \in 1..NumUfos |-> CruisingUfo(i, nl, cd, hv)] :
                    nl \in FrameDraws.next, cd \in FrameDraws.cooldown,
                    hv \in HoverOffsets}
    /\ health \in SiegeHealths
    /\ activeProjectiles = << >>
    /\ playerScore = 0
    /\ totalUfos = NumUfos
    /\ ufosDestroyed = 0
    /\ gameStatus = "playing"
    /\ isPaused = FALSE
    /\ isUserPaused = FALSE
    /\ isAboutModalOpen = FALSE
    /\ isGameStarted = TRUE
    /\ sceneLoaded = TRUE
    /\ sinceLastShot = ShotCooldown + 1
    /\ victorySignals = 0
    /\ lossSignals = 0
    /\ crashEffects = [i \in 1..NumUfos |-> 0]
    /\ plane = [NewPhysicsEngine(InitialRotation) EXCEPT
                  !.moved = ConstructedSpeed * dt0]
    /\ projection = SessionLoaded.projection
    /\ scene = SessionLoaded.scene
    /\ loads = NoLoads
    /\ lastCall = NoCall

Init == InitFresh \/ InitSiege

\* loadTerrainAndEnvironment resolves: Space Needle, plane and UFOs exist
LoadTerrainAndEnvironment ==
    /\ ~sceneLoaded
    /\ \E first \in [1..NumUfos -> InitialNextLaserTimes],
          file \in SessionElevationFiles :
          Becomes(LoadTerrainAndEnvironmentOn(Current, file, FALSE, first))
    /\ UNCHANGED <<lastCall, loads>>

\* one call of animate()
Animate ==
    \E dt \in FrameDeltaTimes, hover \in HoverOffsets,
       didShoot \in BOOLEAN, didTogglePause \in BOOLEAN, inputs \in FrameInputs :
       /\ Explored
       /\ didShoot => Len(activeProjectiles) < MaxProjectiles
       /\ \E g \in AnimateFrame(Current, dt, hover, didShoot, didTogglePause,
                                 inputs) :
             Becomes(g)
       /\ UNCHANGED <<lastCall, loads>>

\* startGameHandler (keydown while the start modal is shown)
StartGameHandler ==
    /\ ~isGameStarted
    /\ Becomes(UpdatePauseState([Current EXCEPT !.isUserPaused = FALSE,
                                                !.isGameStarted = TRUE]))
    /\ UNCHANGED <<lastCall, loads>>

\* click on the hamburger menu or on the pause modal's About button
OpenAboutModal ==
    /\ ~isAboutModalOpen
    /\ Becomes(OpenAboutModalOn(Current))
    /\ UNCHANGED <<lastCall, loads>>

\* click on the About modal's close button
CloseAboutModal ==
    /\ isAboutModalOpen
    /\ Becomes(CloseAboutModalOn(Current))
    /\ UNCHANGED <<lastCall, loads>>

\* the restart key on the game-over or victory screen: the page is reloaded
RestartKey ==
    /\ gameStatus \in {"won", "lost"}
    /\ Becomes([ufos |-> << >>, health |-> InitialHealth,
                activeProjectiles |-> << >>, playerScore |-> 0,
                totalUfos |-> 0, ufosDestroyed |-> 0, gameStatus |-> "playing",
                isPaused |-> TRUE, isUserPaused |-> FALSE,
                isAboutModalOpen |-> FALSE, isGameStarted |-> FALSE,
                sceneLoaded |-> FALSE, sinceLastShot |-> 0,
                victorySignals |-> 0, lossSignals |-> 0,
                crashEffects |-> << >>, plane |-> NoPlane,
                projection |-> NoProjection, scene |-> ModuleLoadScene])
    /\ UNCHANGED <<lastCall, loads>>

Next ==
    \/ LoadTerrainAndEnvironment
    \/ Animate
    \/ StartGameHandler
    \/ OpenAboutModal
    \/ CloseAboutModal
    \/ RestartKey

Spec == Init /\ [][Next]_vars

(***************************************************************************)
(* The Ufo API: update(deltaTime) and hit() called in any order on one UFO *)
(***************************************************************************)
InitUfo ==
    /\ ufos \in {<<NewUfo(i, nl)>> : i \in 1..NumUfos, nl \in InitialNextLaserTimes}
    /\ health \in {InitialHealth} \cup SiegeHealths
    /\ activeProjectiles = << >>
    /\ playerScore = 0
    /\ totalUfos = 1
    /\ ufosDestroyed = 0
    /\ gameStatus = "playing"
    /\ isPaused = FALSE
    /\ isUserPaused = FALSE
    /\ isAboutModalOpen = FALSE
    /\ isGameStarted = TRUE
    /\ sceneLoaded = TRUE
    /\ sinceLastShot = 0
    /\ victorySignals = 0
    /\ lossSignals = 0
    /\ crashEffects = <<0>>
    /\ plane = NoPlane
    /\ projection = NoProjection
    /\ scene = ModuleLoadScene
    /\ loads = NoLoads
    /\ lastCall = NoCall

\* everything but the UFO, the Space Needle and the record of the call
sessionVars == <<activeProjectiles, playerScore, totalUfos, ufosDestroyed,
                 gameStatus, isPaused, isUserPaused, isAboutModalOpen,
                 isGameStarted, sceneLoaded, sinceLastShot, victorySignals,
                 lossSignals, crashEffects, plane, projection, scene, loads>>

\* ufo.update(deltaTime)
UfoUpdateCall ==
    \E dt \in DeltaTimes, hover \in HoverOffsets :
       /\ Explored
       /\ \E o \in UfoUpdate(ufos[1], health, dt, hover, UfoDraws) :
             /\ ufos' = <<o.ufo>>
             /\ health' = o.health
       /\ lastCall' = [op |-> "update", ufo |-> ufos[1], health |-> health]
       /\ UNCHANGED sessionVars

\* ufo.hit()
UfoHitCall ==
    /\ ufos' = <<Hit(ufos[1])>>
    /\ lastCall' = [op |-> "hit", ufo |-> ufos[1], health |-> health]
    /\ UNCHANGED <<health, sessionVars>>

NextUfo == UfoUpdateCall \/ UfoHitCall

SpecUfo == InitUfo /\ [][NextUfo]_vars

\* the same calls on a UFO over a Space Needle on its last health points,
\* where update keeps being called: every frame that is not paused calls
\* update on every UFO with the deltaTime of the clock
InitUfoSiege ==
    /\ InitUfo
    /\ health \in SiegeHealths

SpecUfoFair == InitUfoSiege /\ [][NextUfo]_vars /\ WF_vars(UfoUpdateCall)

(***************************************************************************)
(* The SpaceNeedle API: takeDamage(amount) called with any number          *)
(***************************************************************************)
\* amounts passed to takeDamage, in health units: the default 0.5, zero,
\* larger ones, one beyond the whole health, and a negative one
DamageAmounts == {-1, 0, 1, 3, 250}

InitNeedle ==
    /\ ufos = << >>
    /\ health = InitialHealth
    /\ activeProjectiles = << >>
    /\ playerScore = 0
    /\ totalUfos = 0
    /\ ufosDestroyed = 0
    /\ gameStatus = "playing"
    /\ isPaused = TRUE
    /\ isUserPaused = FALSE
    /\ isAboutModalOpen = FALSE
    /\ isGameStarted = FALSE
    /\ sceneLoaded = TRUE
    /\ sinceLastShot = 0
    /\ victorySignals = 0
    /\ lossSignals = 0
    /\ crashEffects = << >>
    /\ plane = NoPlane
    /\ projection = NoProjection
    /\ scene = ModuleLoadScene
    /\ loads = NoLoads
    /\ lastCall = NoCall

\* spaceNeedle.takeDamage(amount)
TakeDamageCall ==
    \E amount \in DamageAmounts :
       /\ health < MaxHealthExplored
       /\ health' = TakeDamage(health, amount)
       /\ lastCall' = [op |-> "takeDamage", amount |-> amount, health |-> health,
                       returned |-> TakeDamageReturn(health, amount)]
       /\ UNCHANGED <<ufos, sessionVars>>

NextNeedle == TakeDamageCall

SpecNeedle == InitNeedle /\ [][NextNeedle]_vars

(***************************************************************************)
(* The fall of a UFO: update(1/60) called again and again on a UFO that    *)
(* was hit at the height of the highest orbit                              *)
(***************************************************************************)
\* height of the highest orbit of createUfos, 100 + (i % 5) * 30, world units
FallHeight == 100 + 4 * 30

\* the fixed deltaTime of the fall, 1/60 s
FallDeltaTime == 1

InitFall ==
    /\ ufos \in {<<[Hit(NewUfo(5, nl)) EXCEPT !.y = FallHeight * LengthScale]>> :
                    nl \in InitialNextLaserTimes}
    /\ health = InitialHealth
    /\ activeProjectiles = << >>
    /\ playerScore = 0
    /\ totalUfos = 1
    /\ ufosDestroyed = 1
    /\ gameStatus = "playing"
    /\ isPaused = FALSE
    /\ isUserPaused = FALSE
    /\ isAboutModalOpen = FALSE
    /\ isGameStarted = TRUE
    /\ sceneLoaded = TRUE
    /\ sinceLastShot = 0
    /\ victorySignals = 0
    /\ lossSignals = 0
    /\ crashEffects = <<0>>
    /\ plane = NoPlane
    /\ projection = NoProjection
    /\ scene = ModuleLoadScene
    /\ loads = NoLoads
    /\ lastCall = [op |-> "hit", number |-> 0]

\* ufo.update(1/60); lastCall.number counts the updates since the hit
FallUpdateCall ==
    /\ lastCall.number < MaxFallSteps
    /\ \E hover \in HoverOffsets :
          \E o \in UfoUpdate(ufos[1], health, FallDeltaTime, hover, UfoDraws) :
             /\ ufos' = <<o.ufo>>
             /\ health' = o.health
    /\ lastCall' = [op |-> "update", number |-> lastCall.number + 1]
    /\ UNCHANGED sessionVars

NextFall == FallUpdateCall

SpecFall == InitFall /\ [][NextFall]_vars

\* the step of the closed form h = h0 + 0.5 * g * t^2: the first n with
\* 220 - 9.8 * (n / 60)^2 <= 0, in length units
ClosedFormCrashStep ==
    CHOOSE n \in 1..MaxFallSteps :
        /\ 2 * FallHeight * LengthScale - GravityPerTick * n * n <= 0
        /\ 2 * FallHeight * LengthScale - GravityPerTick * (n - 1) * (n - 1) > 0

\* C11: a UFO that starts to fall at height 220 with verticalVelocity 0 and
\* is updated with deltaTime 1/60 s is crashed after n updates exactly when
\* n has reached the step of the closed form (under SpecFall).
CrashOnClosedFormStep ==
    lastCall.op = "update" =>
        (ufos[1].state = "crashed" <=> lastCall.number >= ClosedFormCrashStep)

(***************************************************************************)
(* The PhysicsEngine API: update called again and again while the same     *)
(* keys are held, the keys released, reset and setEnabled at any point     *)
(***************************************************************************)
\* what inputController.getInputs() returns while keys are held
PlaneInputs ==
    {NeutralInputs,
     [pitch |-> 1, roll |-> 0, accelerate |-> 0, decelerate |-> 0],
     [pitch |-> -1, roll |-> 0, accelerate |-> 1, decelerate |-> 0],
     [pitch |-> 0, roll |-> 1, accelerate |-> 0, decelerate |-> 1],
     [pitch |-> 0, roll |-> -1, accelerate |-> 1, decelerate |-> 1],
     [pitch |-> 1, roll |-> -1, accelerate |-> 0, decelerate |-> 0]}

\* deltaTime of the update calls of one flight: 1/60 s, and a spike of 2 s
PlaneDeltaTimes == {1, 120}

\* the plane as loadTerrainAndEnvironment creates it, with the keys and the
\* frame time of the flight
InitPlane ==
    /\ ufos = << >>
    /\ health = InitialHealth
    /\ activeProjectiles = << >>
    /\ playerScore = 0
    /\ totalUfos = 0
    /\ ufosDestroyed = 0
    /\ gameStatus = "playing"
    /\ isPaused = FALSE
    /\ isUserPaused = FALSE
    /\ isAboutModalOpen = FALSE
    /\ isGameStarted = TRUE
    /\ sceneLoaded = TRUE
    /\ sinceLastShot = 0
    /\ victorySignals = 0
    /\ lossSignals = 0
    /\ crashEffects = << >>
    /\ plane = NewPhysicsEngine(InitialRotation)
    /\ projection = SessionLoaded.projection
    /\ scene = SessionLoaded.scene
    /\ loads = NoLoads
    /\ \E inputs \in PlaneInputs, dt \in PlaneDeltaTimes :
          lastCall = [op |-> "new", number |-> 0, inputs |-> inputs, dt |-> dt]

planeHarnessVars ==
    <<ufos, health, activeProjectiles, playerScore, totalUfos, ufosDestroyed,
      gameStatus, isPaused, isUserPaused, isAboutModalOpen, isGameStarted,
      sceneLoaded, sinceLastShot, victorySignals, lossSignals, crashEffects,
      projection, scene, loads>>

\* physicsEngine.update(inputs, deltaTime) with the keys that are held
PlaneUpdateCall ==
    /\ lastCall.number < MaxPlaneUpdates
    /\ plane' = PhysicsUpdate(plane, lastCall.inputs, lastCall.dt)
    /\ lastCall' = [lastCall EXCEPT
                      !.op = "update",
                      !.number = IF plane.enabled THEN @ + 1 ELSE @]
    /\ UNCHANGED planeHarnessVars

\* the keys are released: the following update calls get neutral inputs
PlaneReleaseKeys ==
    /\ lastCall.inputs # NeutralInputs
    /\ lastCall' = [lastCall EXCEPT !.op = "release", !.number = 0,
                                    !.inputs = NeutralInputs]
    /\ UNCHANGED <<plane, planeHarnessVars>>

\* physicsEngine.reset()
PlaneResetCall ==
    /\ lastCall.op = "update"
    /\ plane' = PhysicsReset(plane)
    /\ lastCall' = [lastCall EXCEPT !.op = "reset", !.number = 0]
    /\ UNCHANGED planeHarnessVars

\* physicsEngine.setEnabled(enabled)
PlaneSetEnabledCall ==
    \E enabled \in BOOLEAN :
       /\ enabled # plane.enabled
       /\ plane' = SetEnabled(plane, enabled)
       /\ lastCall' = [lastCall EXCEPT !.op = "setEnabled"]
       /\ UNCHANGED planeHarnessVars

NextPlane ==
    PlaneUpdateCall \/ PlaneReleaseKeys \/ PlaneResetCall \/ PlaneSetEnabledCall

SpecPlane == InitPlane /\ [][NextPlane]_vars

(***************************************************************************)
(* The coordinateUtils API: the projection centre is set as                *)
(* createSeattleTerrainFromGrid sets it, points of the bounding box are    *)
(* projected before and after, and projected points are converted back     *)
(***************************************************************************)
\* longitudes and latitudes of the bounding box: its edges, its centre, the
\* Space Needle and one more
Longitudes == {-1225000000, -1224123457, -1223750000, -1223490000, -1222500000}
Latitudes == {475000000, 475871234, 476230000, 476250000, 477500000}

InitProjection ==
    /\ ufos = << >>
    /\ health = InitialHealth
    /\ activeProjectiles = << >>
    /\ playerScore = 0
    /\ totalUfos = 0
    /\ ufosDestroyed = 0
    /\ gameStatus = "playing"
    /\ isPaused = TRUE
    /\ isUserPaused = FALSE
    /\ isAboutModalOpen = FALSE
    /\ isGameStarted = FALSE
    /\ sceneLoaded = FALSE
    /\ sinceLastShot = 0
    /\ victorySignals = 0
    /\ lossSignals = 0
    /\ crashEffects = << >>
    /\ plane = NoPlane
    /\ projection = NoProjection
    /\ scene = ModuleLoadScene
    /\ loads = NoLoads
    /\ lastCall = NoCall

projectionHarnessVars ==
    <<ufos, health, activeProjectiles, playerScore, totalUfos, ufosDestroyed,
      gameStatus, isPaused, isUserPaused, isAboutModalOpen, isGameStarted,
      sceneLoaded, sinceLastShot, victorySignals, lossSignals, crashEffects,
      plane, scene, loads>>

\* setTerrainSize(TERRAIN_BASE_SIZE); setProjectionCenter(geoBounds...)
SetProjectionCenterCall ==
    /\ projection.centerCalls = 0
    /\ projection' = SetProjectionCenter(
                         SetTerrainSize(projection, TerrainBaseSize * GameScale),
                         SeattleBounds.minLng, SeattleBounds.maxLng,
                         SeattleBounds.minLat, SeattleBounds.maxLat)
    /\ lastCall' = [op |-> "setProjectionCenter"]
    /\ UNCHANGED projectionHarnessVars

\* projectToGameCoords(longitude, latitude, applyScaleFactor)
ProjectToGameCoordsCall ==
    \E longitude \in Longitudes, latitude \in Latitudes,
       applyScaleFactor \in BOOLEAN :
       /\ lastCall' = [op |-> "projectToGameCoords",
                       longitude |-> longitude, latitude |-> latitude,
                       applyScaleFactor |-> applyScaleFactor,
                       returned |-> ProjectToGameCoords(projection, longitude,
                                                        latitude, applyScaleFactor)]
       /\ UNCHANGED <<projection, projectionHarnessVars>>

\* gameToGeoCoords(x, z, isScaled) on the point that projectToGameCoords has
\* just returned
GameToGeoCoordsCall ==
    /\ lastCall.op = "projectToGameCoords"
    /\ lastCall' = [op |-> "gameToGeoCoords",
                    longitude |-> lastCall.longitude,
                    latitude |-> lastCall.latitude,
                    isScaled |-> lastCall.applyScaleFactor,
                    returned |-> GameToGeoCoords(projection, lastCall.returned.x,
                                                 lastCall.returned.z,
                                                 lastCall.applyScaleFactor)]
    /\ UNCHANGED <<projection, projectionHarnessVars>>

NextProjection ==
    SetProjectionCenterCall \/ ProjectToGameCoordsCall \/ GameToGeoCoordsCall

SpecProjection == InitProjection /\ [][NextProjection]_vars

(***************************************************************************)
(* Scene initialisation: loadTerrainAndEnvironment with any elevation file *)
(* or none, and getTerrainElevation called before and after                *)
(***************************************************************************)
\* samples of the elevation grid: below, at and above WATER_LEVEL, NaN, and
\* a cell that holds no number
Samples == {NumberCell(14), NumberCell(WaterLevel), NumberCell(1234), NaNCell,
            UndefinedCell}

\* rows of the grid: DataSize samples, or no row
GridRows ==
    {[present |-> TRUE, cells |-> c] : c \in [1..DataSize -> Samples]}
        \cup {MissingRow}

\* what the fetch of the elevation file can give
ElevationFiles ==
    {[ok |-> TRUE, size |-> DataSize, geographicBounds |-> SeattleBounds,
      grid |-> g] : g \in [1..DataSize -> GridRows]} \cup {FailedFetch}

\* x and z of getTerrainElevation calls: the lines of mesh vertices, a point
\* between them, and points beyond the terrain plane on either side
QueryCoordinates ==
    {VertexCoordinate(i) : i \in 0..(MeshSize - 1)}
        \cup {-HalfSize - 1, HalfSize \div 3, 2 * HalfSize}

\* loadTerrainAndEnvironment, whatever the fetch gives and whether or not
\* createCity throws
LoadAnyTerrain ==
    /\ ~sceneLoaded
    /\ \E file \in ElevationFiles, cityThrows \in BOOLEAN :
          /\ Becomes(LoadTerrainAndEnvironmentOn(Current, file, cityThrows,
                                                 [i \in 1..NumUfos |-> 0]))
          /\ lastCall' = [op |-> "loadTerrainAndEnvironment", fetched |-> file.ok,
                          cityThrows |-> cityThrows]
    /\ UNCHANGED loads

\* getTerrainElevation(x, z)
GetTerrainElevationCall ==
    \E x \in QueryCoordinates, z \in QueryCoordinates :
       /\ lastCall' = [op |-> "getTerrainElevation", x |-> x, z |-> z,
                       returned |-> GetTerrainElevation(scene.elevationData, x, z)]
       /\ UNCHANGED <<ufos, health, sessionVars>>

NextTerrain == LoadAnyTerrain \/ GetTerrainElevationCall

SpecTerrain == InitFresh /\ [][NextTerrain]_vars

(***************************************************************************)
(* Properties of the Ufo state machine (under SpecUfo)                     *)
(***************************************************************************)
\* position of a state in the order flying, hit, falling, crashed
StateRank(s) ==
    CASE s = "flying" -> 0 [] s = "hit" -> 1 [] s = "falling" -> 2 [] s = "crashed" -> 3

UfoCalled == lastCall.op \in {"update", "hit"}

\* C1: whatever call is made on a UFO, its state only moves forward in the
\* order flying, hit, falling, crashed: a UFO that is not flying is not flying
\* after the call, and a crashed UFO is still crashed after the call.
UfoStateOnlyForward ==
    UfoCalled =>
        /\ StateRank(lastCall.ufo.state) <= StateRank(ufos[1].state)
        /\ lastCall.ufo.state # "flying" => ufos[1].state # "flying"
        /\ lastCall.ufo.state = "crashed" => ufos[1].state = "crashed"

\* hit() has been called on a crashed UFO
HitOnCrashedUfo ==
    /\ lastCall.op = "hit"
    /\ lastCall.ufo.state = "crashed"
    /\ ufos[1].state = "crashed"

\* C2: when hit() returns from a call on a flying UFO the state is 'falling'
\* and verticalVelocity is 0; no call ever leaves a UFO in the state 'hit',
\* so no later update() or collision test can observe it.
HitLeavesUfoFalling ==
    /\ \A i \in DOMAIN ufos : ufos[i].state # "hit"
    /\ (lastCall.op = "hit" /\ lastCall.ufo.state = "flying") =>
           (ufos[1].state = "falling" /\ ufos[1].verticalVelocity = 0)

\* hit() has been called on a flying UFO that had been updated before
HitOnFlyingUfo ==
    /\ lastCall.op = "hit"
    /\ lastCall.ufo.state = "flying"
    /\ lastCall.ufo.nextLaserTime \notin InitialNextLaserTimes
    /\ ufos[1].state = "falling"

\* C3: hit() on a UFO that is not flying changes none of state,
\* verticalVelocity, position, needsCrashEffect and the smoke emitter's
\* active flag.
HitIgnoredUnlessFlying ==
    (lastCall.op = "hit" /\ lastCall.ufo.state # "flying") =>
        /\ ufos[1].state = lastCall.ufo.state
        /\ ufos[1].verticalVelocity = lastCall.ufo.verticalVelocity
        /\ ufos[1].y = lastCall.ufo.y
        /\ ufos[1].needsCrashEffect = lastCall.ufo.needsCrashEffect
        /\ ufos[1].smokeActive = lastCall.ufo.smokeActive

\* hit() has been called on a UFO in the middle of its fall
HitOnFallingUfo ==
    /\ lastCall.op = "hit"
    /\ lastCall.ufo.state = "falling"
    /\ lastCall.ufo.verticalVelocity < 0
    /\ lastCall.ufo.smokeActive
    /\ ufos[1].y = lastCall.ufo.y

(***************************************************************************)
(* Properties of the Space Needle's health                                 *)
(***************************************************************************)
\* C4: after any sequence of takeDamage(amount) calls, whatever number is
\* passed, health is in [0, 100] and no call has raised it (under SpecNeedle).
HealthBoundedNeverRises ==
    /\ 0 <= health /\ health <= InitialHealth
    /\ lastCall.op = "takeDamage" => health <= lastCall.health

\* C5: takeDamage returns true exactly when health is 0 after the call, and
\* once health is 0 every further call leaves it at 0 and returns true
\* (under SpecNeedle).
DestroyedIffZeroAndStaysZero ==
    lastCall.op = "takeDamage" =>
        /\ lastCall.returned <=> (health = 0)
        /\ lastCall.health = 0 => (health = 0 /\ lastCall.returned)

\* C9: one fireLaser() lowers health by exactly 0.5 (health permitting) when
\* the beam hits and by 0 when it misses, never by more than 0.5, and an
\* update() made while the beam is still active does no damage (under
\* SpecUfo; fireLaser runs at most once in one update()).
FireLaserDamagesOnce ==
    lastCall.op = "update" =>
        /\ lastCall.health - health \in {0, Min(LaserDamage, lastCall.health)}
        /\ lastCall.ufo.laserActive => health = lastCall.health

(***************************************************************************)
(* Properties of the game session (under Spec)                             *)
(***************************************************************************)
\* C6: gameStatus leaves 'playing' at most once and then keeps its value;
\* showVictory and showGameOver are each called at most once, never both.
\* Every assignment to gameStatus is counted by its signal, so the counts
\* say how often gameStatus changed.
OutcomeDecidedOnce ==
    /\ victorySignals + lossSignals <= 1
    /\ (gameStatus = "playing") <=> (victorySignals + lossSignals = 0)
    /\ (gameStatus = "won") <=> (victorySignals = 1)
    /\ (gameStatus = "lost") <=> (lossSignals = 1)

\* the game was lost and every UFO was shot down afterwards: handleVictory
\* has been called in a lost game
VictoryAttemptedAfterLoss ==
    /\ sceneLoaded
    /\ gameStatus = "lost"
    /\ totalUfos = NumUfos
    /\ ufosDestroyed = totalUfos

\* C7: once all N UFOs have been hit with the Space Needle's health above 0,
\* exactly one victory signal has fired, by the end of the frame of the N-th
\* hit, and no loss signal fires in that or any later frame.
AllUfosHitIsVictory ==
    (sceneLoaded /\ ufosDestroyed >= totalUfos /\ health > 0) =>
        (gameStatus = "won" /\ victorySignals = 1 /\ lossSignals = 0)

\* all UFOs were hit while the Space Needle stood, and frames went on until
\* the last wreck lay on the ground
WonAndAllCrashed ==
    /\ sceneLoaded
    /\ totalUfos = NumUfos
    /\ ufosDestroyed = totalUfos
    /\ health > 0
    /\ victorySignals = 1
    /\ \A i \in DOMAIN ufos : ufos[i].state = "crashed"

\* C8: a frame that ends with health 0 and reached its loss test with
\* gameStatus 'playing' ends with gameStatus 'lost' and the game-over signal
\* fired; the only other way to end a frame with health 0 is a game won
\* before the test.
LossDecidedInItsFrame ==
    (sceneLoaded /\ health <= 0) =>
        \/ gameStatus = "lost" /\ lossSignals = 1
        \/ gameStatus = "won" /\ lossSignals = 0

\* a laser took the last health while UFOs were still flying
LostWithUfosFlying ==
    /\ health = 0
    /\ gameStatus = "lost"
    /\ lossSignals = 1
    /\ ufosDestroyed < totalUfos
    /\ \E i \in DOMAIN ufos : ufos[i].state = "flying"

\* C10: needsCrashEffect is set once per UFO, in the update that takes it
\* from falling to crashed: at the end of every frame the flag is reset, and
\* the frame loop has found it set once for a crashed UFO and never for any
\* other.
CrashEffectOncePerUfo ==
    \A i \in DOMAIN ufos :
        /\ ~ufos[i].needsCrashEffect
        /\ crashEffects[i] = IF ufos[i].state = "crashed" THEN 1 ELSE 0

\* a UFO has crashed and its effect was played, and a later frame opened the
\* pause menu while another UFO is still flying
CrashedThenPaused ==
    /\ \E i \in DOMAIN ufos :
          ufos[i].state = "crashed" /\ ufos[i].y = 0 /\ crashEffects[i] = 1
    /\ \E j \in DOMAIN ufos : ufos[j].state = "flying"
    /\ isUserPaused

\* C12: a frame that finds the master pause flag isPaused true at its pause
\* check changes no simulation state: UFOs (state, position, laser timers),
\* projectiles, Space Needle health, score, ufosDestroyed, gameStatus and the
\* plane's speed and orientation stay as they were, and the plane is not moved.
PausedFrameChangesNothing ==
    [][\/ /\ UNCHANGED <<ufos, health, activeProjectiles, playerScore,
                            ufosDestroyed, gameStatus>>
          /\ plane'.created = plane.created
          /\ plane.created =>
                /\ plane'.speed = plane.speed
                /\ plane'.rotationQuaternion = plane.rotationQuaternion
                /\ plane'.moved = 0
       \/ ~(isPaused' /\ Animate)]_vars

\* the latest frame was a paused one, with a UFO in free fall and a projectile
\* in flight that it left where they were
PausedWithUfoFalling ==
    /\ isPaused /\ isUserPaused /\ sceneLoaded
    /\ plane.created /\ ~plane.enabled /\ plane.moved = 0
    /\ \E i \in DOMAIN ufos :
          ufos[i].state = "falling" /\ ufos[i].verticalVelocity < 0
    /\ Len(activeProjectiles) > 0

\* C19: after every PhysicsEngine.update, whatever keys are held and whatever
\* the deltaTime, the pitch of the plane is within +-60 degrees and its roll
\* within +-45 degrees; a plane at the pitch limit with pitch 1.0 still held
\* is at the limit again after the next update, so no number of further
\* frames takes it beyond 60 degrees.
PitchAndRollWithinLimits ==
    /\ plane.rotationQuaternion.pitch \in -MaxPitchAngle..MaxPitchAngle
    /\ plane.rotationQuaternion.roll \in -MaxRollAngle..MaxRollAngle
    /\ (/\ lastCall.inputs.pitch = 1
        /\ plane.rotationQuaternion.pitch = MaxPitchAngle) =>
          PhysicsUpdate(plane, lastCall.inputs, lastCall.dt).rotationQuaternion.pitch
             = MaxPitchAngle

\* pitch 1.0 was held for MaxPlaneUpdates updates of 1/60 s and the plane is
\* at the pitch limit
SustainedPitchAtLimit ==
    /\ lastCall.op = "update" /\ lastCall.number = MaxPlaneUpdates
    /\ lastCall.inputs.pitch = 1 /\ lastCall.inputs.roll = 0
    /\ lastCall.dt = 1
    /\ plane.enabled
    /\ plane.rotationQuaternion.pitch = MaxPitchAngle

\* C20: after any sequence of update calls, reset() leaves the engine with
\* the speed and the orientation it was constructed with.
ResetRestoresConstruction ==
    lastCall.op = "reset" =>
       /\ plane.speed = ConstructedSpeed
       /\ plane.rotationQuaternion = InitialRotation

\* C17: once setProjectionCenter has run, projectToGameCoords is monotone
\* northward: of two points of the same longitude, the one of greater
\* latitude gets the greater z (under SpecProjection).
NorthwardIsGreaterZ ==
    (lastCall.op = "projectToGameCoords" /\ projection.boundingBoxCalculated) =>
        \A north \in Latitudes :
            north > lastCall.latitude =>
                ProjectToGameCoords(projection, lastCall.longitude, north,
                                    lastCall.applyScaleFactor).z
                    > lastCall.returned.z

\* C18: once setProjectionCenter has run, gameToGeoCoords takes the result of
\* projectToGameCoords for a point of the bounding box back to that point
\* within 1e-6 degree (10 units) of longitude and of latitude, with the scale
\* factor applied and without it (under SpecProjection).
GameToGeoInvertsProject ==
    (lastCall.op = "gameToGeoCoords" /\ projection.boundingBoxCalculated) =>
        /\ lastCall.returned.lng - lastCall.longitude \in -10..10
        /\ lastCall.returned.lat - lastCall.latitude \in -10..10

\* the scaled position of the Space Needle was converted back
NeedleConvertedBack ==
    /\ lastCall.op = "gameToGeoCoords" /\ projection.boundingBoxCalculated
    /\ lastCall.isScaled
    /\ lastCall.longitude = SpaceNeedleCoordinates.longitude
    /\ lastCall.latitude = SpaceNeedleCoordinates.latitude
    /\ lastCall.returned.lat \in (lastCall.latitude - 10)..(lastCall.latitude + 10)

\* the query (x, z) falls outside the grid, on a missing row, on a cell that
\* holds no number, or on a NaN sample
NoSampleAt(data, x, z) ==
    LET gridX == GridIndex(x, data.size)
        gridZ == GridIndex(z, data.size)
    IN  \/ gridX < 0 \/ gridX >= data.size \/ gridZ < 0 \/ gridZ >= data.size
        \/ ~data.grid[gridZ + 1].present
        \/ data.grid[gridZ + 1].cells[gridX + 1].type # "number"
        \/ data.grid[gridZ + 1].cells[gridX + 1].nan

\* the raw sample under (x, z) is a number at or below WATER_LEVEL
WaterSampleAt(data, x, z) ==
    /\ ~NoSampleAt(data, x, z)
    /\ data.grid[GridIndex(z, data.size) + 1].cells[GridIndex(x, data.size) + 1].value
          <= WaterLevel

MissingSampleIsWater ==
    (lastCall.op = "getTerrainElevation" /\ scene.elevationData.loaded) =>
        /\ lastCall.returned \in Int
        /\ NoSampleAt(scene.elevationData, lastCall.x, lastCall.z) =>
              lastCall.returned = UnderwaterVertexHeight

\* getTerrainElevation was called beyond the edge of a grid whose nearest
\* cell is land, and returned the water height
QueriedBeyondLand ==
    /\ lastCall.op = "getTerrainElevation" /\ scene.elevationData.loaded
    /\ lastCall.x = -HalfSize - 1 /\ lastCall.z = -HalfSize
    /\ scene.elevationData.grid[1].present
    /\ scene.elevationData.grid[1].cells[1] = NumberCell(1234)
    /\ lastCall.returned = UnderwaterVertexHeight

\* C15: when the fetch or the parse of the elevation data has failed,
\* loadTerrainAndEnvironment leaves the scene with the emergency fallback
\* plane: never with neither the terrain mesh nor the fallback (under
\* SpecTerrain).
FallbackWhenLoadFails ==
    (sceneLoaded /\ ~scene.elevationData.loaded) =>
        /\ scene.fallbackPlane
        /\ scene.terrain.created \/ scene.fallbackPlane

\* C16: in a loaded scene setProjectionCenter has run exactly once, and the
\* positions of the Space Needle, of the UFO orbit centre and of the plane's
\* start come from projectToGameCoords calls made after it (under
\* SpecTerrain).
PlacedAfterProjectionCenter ==
    (sceneLoaded /\ scene.planeAt.placed) =>
        /\ projection.centerCalls = 1
        /\ scene.needleAt.centred
        /\ scene.orbitCentre.centred
        /\ scene.planeAt.centred


(***************************************************************************)
(* loadElevationData called any number of times, the calls overlapping in  *)
(* any way at their awaits                                                 *)
(***************************************************************************)
loadHarnessVars ==
    <<ufos, health, activeProjectiles, playerScore, totalUfos, ufosDestroyed,
      gameStatus, isPaused, isUserPaused, isAboutModalOpen, isGameStarted,
      sceneLoaded, sinceLastShot, victorySignals, lossSignals, crashEffects,
      plane, projection>>

\* a call of loadElevationData begins
LoadElevationDataCall ==
    /\ Len(loads.calls) < MaxLoadCalls
    /\ loads' = LoadElevationDataOn(scene, loads)
    /\ UNCHANGED <<scene, lastCall, loadHarnessVars>>

\* the fetch of a waiting call settles
FetchSettles ==
    \E c \in DOMAIN loads.calls, responseOk \in BOOLEAN :
       /\ loads.calls[c].pc = "fetching"
       /\ loads' = FetchSettlesOn(loads, c, responseOk)
       /\ UNCHANGED <<scene, lastCall, loadHarnessVars>>

\* response.json() of a waiting call settles
JsonSettles ==
    \E c \in DOMAIN loads.calls, file \in {SessionFile, FailedFetch} :
       /\ loads.calls[c].pc = "parsing"
       /\ scene' = JsonSettlesOn(scene, loads, c, file).scene
       /\ loads' = JsonSettlesOn(scene, loads, c, file).loads
       /\ UNCHANGED <<lastCall, loadHarnessVars>>

NextLoad == LoadElevationDataCall \/ FetchSettles \/ JsonSettles

SpecLoad == InitFresh /\ [][NextLoad]_vars

\* C21: the elevation grid is fetched at most once: no call of
\* loadElevationData that begins after the first one issues a fetch, and all
\* calls that return give the same data object.
FetchedOnceAndShared ==
    /\ loads.fetches <= 1
    /\ \A c \in DOMAIN loads.calls : c > 1 => loads.calls[c].fetch = 0
    /\ \A c, d \in DOMAIN loads.calls :
          loads.calls[c].pc = "returned" /\ loads.calls[d].pc = "returned"
             => loads.calls[c].returned = loads.calls[d].returned


\* C22: kill accounting: ufosDestroyed is the number of UFOs that are not
\* flying, it does not exceed totalUfos once the UFOs exist, and playerScore is
\* 10000 per destroyed UFO; a UFO within the hit radius of several projectiles
\* in one frame is counted once.
KillAccounting ==
    /\ ufosDestroyed = Cardinality({i \in DOMAIN ufos : ufos[i].state # "flying"})
    /\ sceneLoaded => ufosDestroyed <= totalUfos
    /\ playerScore = ScorePerUfo * ufosDestroyed

\* a UFO was hit in the latest frame, one kill is counted, and a second
\* projectile of that frame is still in flight
HitOnceWithProjectileLeft ==
    /\ \E i \in DOMAIN ufos :
          ufos[i].state = "falling" /\ ufos[i].verticalVelocity = 0
    /\ ufosDestroyed = 1 /\ playerScore = ScorePerUfo
    /\ Len(activeProjectiles) >= 1


\* C23: projectile lifecycle: after an unpaused frame every projectile in
\* activeProjectiles has timeAlive below the lifespan; the projectiles left are
\* those in flight (with the one just shot) that did not expire, less one per
\* UFO hit in the frame: an expired projectile hits nothing, and a projectile
\* that hits is removed and hits one UFO.
ProjectileLifecycle ==
    [][\/ \E dt \in FrameDeltaTimes :
             LET before == IF sinceLastShot' = 0
                           THEN Append(activeProjectiles, 0)
                           ELSE activeProjectiles
                 alive == {i \in DOMAIN before :
                              ProjectileUpdate(before[i], dt) < ProjectileLifespan}
                 kills == ufosDestroyed' - ufosDestroyed
             IN  /\ \A k \in DOMAIN activeProjectiles' :
                       /\ activeProjectiles'[k] < ProjectileLifespan
                       /\ \E i \in alive :
                             activeProjectiles'[k] = ProjectileUpdate(before[i], dt)
                 /\ kills >= 0
                 /\ Len(activeProjectiles') = Cardinality(alive) - kills
       \/ isPaused'
       \/ ~Animate]_vars

\* one projectile has hit a UFO and another has flown to its last frame
\* before the end of its lifespan
ProjectileOnLastFrame ==
    /\ ufosDestroyed = 1 /\ ~isPaused
    /\ \E i \in DOMAIN activeProjectiles, dt \in FrameDeltaTimes :
          /\ activeProjectiles[i] < ProjectileLifespan
          /\ ~(ProjectileUpdate(activeProjectiles[i], dt) < ProjectileLifespan)


(***************************************************************************)
(* One flying UFO under update(dt) calls of any frame length; the call     *)
(* record keeps the deltaTime accumulated since the UFO last fired         *)
(***************************************************************************)
\* frame lengths: 0.25 s, 0.5 s (the beam's duration) and 2.5 s
LaserDeltaTimes == {15, 30, 150}

InitLaser ==
    /\ ufos \in {<<NewUfo(1, nl)>> : nl \in InitialNextLaserTimes}
    /\ health \in {InitialHealth} \cup SiegeHealths
    /\ activeProjectiles = << >>
    /\ playerScore = 0
    /\ totalUfos = 1
    /\ ufosDestroyed = 0
    /\ gameStatus = "playing"
    /\ isPaused = FALSE
    /\ isUserPaused = FALSE
    /\ isAboutModalOpen = FALSE
    /\ isGameStarted = TRUE
    /\ sceneLoaded = TRUE
    /\ sinceLastShot = 0
    /\ victorySignals = 0
    /\ lossSignals = 0
    /\ crashEffects = <<0>>
    /\ plane = NoPlane
    /\ projection = NoProjection
    /\ scene = ModuleLoadScene
    /\ loads = NoLoads
    /\ lastCall = [op |-> "new", dt |-> 0, fired |-> FALSE, firedBefore |-> FALSE,
                   elapsed |-> 0, activeBefore |-> FALSE, since |-> 0]

\* ufo.update(deltaTime) on the flying UFO.  fired: fireLaser ran in this
\* call; elapsed: the deltaTime
\* accumulated since the previous fire, this call's included, counted up to
\* MinFireInterval; since: the same after this call
LaserUpdateCall ==
    \E dt \in LaserDeltaTimes, hover \in HoverOffsets :
       /\ Explored
       /\ \E o \in UfoUpdate(ufos[1], health, dt, hover, UfoDraws) :
             LET fired == FiresLaser(ufos[1], dt)
                 elapsed == Min(lastCall.since + dt, MinFireInterval)
             IN  /\ ufos' = <<o.ufo>>
                 /\ health' = o.health
                 /\ lastCall' = [op |-> "update", dt |-> dt, fired |-> fired,
                                 firedBefore |-> lastCall.firedBefore
                                                   \/ lastCall.fired,
                                 elapsed |-> elapsed,
                                 activeBefore |-> ufos[1].laserActive
                                                    \/ ufos[1].laserVisible,
                                 since |-> IF fired THEN 0 ELSE elapsed]
       /\ UNCHANGED sessionVars

NextLaser == LaserUpdateCall

SpecLaser == InitLaser /\ [][NextLaser]_vars

\* C24: a flying UFO that has fired its laser fires again only when the beam
\* of the previous fire has been deactivated and at least 2 seconds of
\* deltaTime have accumulated since that fire.
FiresAgainAfterInterval ==
    lastCall.fired /\ lastCall.firedBefore
        => /\ ~lastCall.activeBefore
           /\ lastCall.elapsed >= MinFireInterval

\* the UFO fired a second time, after short frames and a beam that was seen
\* and went out
FiredSecondTime ==
    /\ lastCall.fired /\ lastCall.firedBefore
    /\ lastCall.dt < LaserDuration
    /\ ufos[1].laserActive /\ ufos[1].laserVisible


(***************************************************************************)
(* The material groups of a terrain geometry with any vertex heights.      *)
(* Heights are in 1/10000 world unit here, so that epsilon is 10 units.    *)
(***************************************************************************)
\* height units per unit of the terrain heights
GroupHeightScale == 100

\* vertex heights: the underwater height, one within epsilon of it, one
\* just beyond epsilon
GroupHeights ==
    {UnderwaterVertexHeight * GroupHeightScale,
     UnderwaterVertexHeight * GroupHeightScale + 5,
     UnderwaterVertexHeight * GroupHeightScale + 15}

GroupMeshVertices == (0..(GroupMeshSize - 1)) \X (0..(GroupMeshSize - 1))

\* a geometry whose vertex heights are set and whose groups are cleared
InitGroups ==
    /\ ufos = << >>
    /\ health = InitialHealth
    /\ activeProjectiles = << >>
    /\ playerScore = 0
    /\ totalUfos = 0
    /\ ufosDestroyed = 0
    /\ gameStatus = "playing"
    /\ isPaused = TRUE
    /\ isUserPaused = FALSE
    /\ isAboutModalOpen = FALSE
    /\ isGameStarted = FALSE
    /\ sceneLoaded = FALSE
    /\ sinceLastShot = 0
    /\ victorySignals = 0
    /\ lossSignals = 0
    /\ crashEffects = << >>
    /\ plane = NoPlane
    /\ projection = NoProjection
    /\ \E h \in [GroupMeshVertices -> GroupHeights] :
          scene = [ModuleLoadScene EXCEPT
                      !.terrain = [created |-> TRUE, height |-> h,
                                   groups |-> << >>]]
    /\ loads = NoLoads
    /\ lastCall = NoCall

\* the material groups are assigned
AssignMaterialGroupsCall ==
    /\ lastCall = NoCall
    /\ scene' = [scene EXCEPT
                   !.terrain.groups =
                       AssignMaterialGroups(scene.terrain.height, GroupMeshSize,
                                            GroupHeightScale)]
    /\ lastCall' = [op |-> "assignMaterialGroups"]
    /\ UNCHANGED <<loads, loadHarnessVars>>

NextGroups == AssignMaterialGroupsCall

SpecGroups == InitGroups /\ [][NextGroups]_vars

\* the tag of a face: water when each of its three vertex heights is within
\* 0.001 of the underwater height
WaterFace(f) ==
    \A k \in 1..3 :
       LET y == scene.terrain.height[PlaneFaces(GroupMeshSize)[f][k]]
           under == UnderwaterVertexHeight * GroupHeightScale
       IN  y - under < 10 /\ under - y < 10

\* C25: the material groups are index ranges that follow one another from 0
\* to the end of the index without gap or overlap, every face of a group has
\* the group's tag (water if all three vertex heights are within 0.001 of the
\* underwater height, land otherwise), and neighbouring groups differ in tag.
GroupsPartitionFaces ==
    lastCall # NoCall =>
        LET groups == scene.terrain.groups
            faceCount == Len(PlaneFaces(GroupMeshSize))
        IN  /\ Len(groups) >= 1
            /\ groups[1].start = 0
            /\ groups[Len(groups)].start + groups[Len(groups)].count
                  = 3 * faceCount
            /\ \A k \in DOMAIN groups :
                  /\ groups[k].count > 0 /\ groups[k].count % 3 = 0
                  /\ groups[k].start % 3 = 0
                  /\ k > 1 =>
                        /\ groups[k].start
                              = groups[k - 1].start + groups[k - 1].count
                        /\ groups[k].materialIndex
                              # groups[k - 1].materialIndex
                  /\ \A f \in 1..faceCount :
                        groups[k].start <= 3 * (f - 1)
                        /\ 3 * (f - 1) < groups[k].start + groups[k].count
                           => groups[k].materialIndex
                                = IF WaterFace(f) THEN 1 ELSE 0

\* groups were assigned to a geometry with water faces between land faces,
\* one of them with a vertex off the underwater height but within epsilon
WaterBetweenLand ==
    /\ lastCall # NoCall
    /\ Len(scene.terrain.groups) >= 3
    /\ scene.terrain.groups[1].materialIndex = 0
    /\ \E f \in 1..Len(PlaneFaces(GroupMeshSize)) :
          /\ WaterFace(f)
          /\ \E k \in 1..3 :
                scene.terrain.height[PlaneFaces(GroupMeshSize)[f][k]]
                   # UnderwaterVertexHeight * GroupHeightScale


\* C26: the game starts paused: until the start modal is dismissed
\* (isGameStarted) the master pause flag isPaused stays true, so that no frame
\* before that runs the game logic.
PausedUntilStarted == ~isGameStarted => isPaused


\* C27: a UFO that is not flying has no active laser: its laserActive is
\* false and its beam is invisible.
NoLaserUnlessFlying ==
    \A i \in DOMAIN ufos :
       ufos[i].state # "flying"
          => ~ufos[i].laserActive /\ ~ufos[i].laserVisible


\* C28: a frame of a game being played in which the Space Needle's health
\* reaches 0 and the last flying UFO is hit by a projectile ends with
\* gameStatus 'won'.
TieFrameIsWon ==
    [][(/\ gameStatus = "playing"
        /\ health > 0 /\ health' <= 0
        /\ ufosDestroyed < totalUfos /\ ufosDestroyed' >= totalUfos')
          => gameStatus' = "won"]_vars

\* the game was won in the frame in which a laser took the last health
WonWithNeedleDown ==
    /\ gameStatus = "won" /\ victorySignals = 1 /\ lossSignals = 0
    /\ health = 0
    /\ ufosDestroyed = totalUfos /\ totalUfos = NumUfos

\* C29: a UFO that has been hit, and is falling, reaches state 'crashed'
\* while update keeps being called with deltaTime > 0; it does not stay
\* 'falling' forever (under SpecUfoFair).
FallingLeadsToCrashed ==
    (ufos[1].state = "falling") ~> (ufos[1].state = "crashed" /\ ufos[1].y = 0)

\* the update call that ended the fall of a UFO
FallEndedByUpdate ==
    /\ lastCall.op = "update"
    /\ lastCall.ufo.state = "falling" /\ lastCall.ufo.y > 0
    /\ ufos[1].state = "crashed" /\ ufos[1].y = 0

\* C30: every frame and every pause or About-modal handler (each ends after
\* a call of updatePauseState) leaves isPaused equal to (isUserPaused or
\* isAboutModalOpen); and whenever isPaused is false and the physics engine
\* exists, the physics engine is enabled.
PauseBookkeeping ==
    [][/\ \/ isPaused' = (isUserPaused' \/ isAboutModalOpen')
          \/ LoadTerrainAndEnvironment
          \/ RestartKey
       /\ (~isPaused' /\ plane'.created) => plane'.enabled]_vars

\* the game paused by the player with the About modal open over it, the
\* physics engine disabled by updatePauseState
PausedUnderAboutModal ==
    /\ isPaused /\ isUserPaused /\ isAboutModalOpen
    /\ plane.created /\ ~plane.enabled

====
